---- MODULE Spec2Model ----
(***************************************************************************)
(* Model of the prompt-rewriting core of chat-copilot: the message        *)
(* handler, the model orchestrator (ModelManager), the three provider     *)
(* adapters, the system-prompt builder, the rule engine, the adversarial  *)
(* screener, the custom-rule storage and the options page that edits it.  *)
(*                                                                         *)
(* Text is a sequence of tokens.  A token stands for one character        *)
(* ("sp" a whitespace character, "q" a quote character, "x" any other     *)
(* character) or for one phrase that the code's keyword lists and regular *)
(* expressions look for.  No keyword spans two tokens.                    *)
(***************************************************************************)
EXTENDS Naturals, Sequences, FiniteSets, TLC

(***************************************************************************)
(* Text                                                                    *)
(***************************************************************************)

\* Phrases that may occur in a user's text.
KwYouAre     == "You are"           \* a role keyword of hasRoleDefinition
KwNumbered   == "1. "               \* matches /\d+\.\s/ of hasStructure
KwFormat     == "format"            \* a keyword of hasOutputFormat
KwDetailed   == "detailed"          \* a keyword of hasDetailedContext
KwCode       == "code"              \* a keyword of hasCodeBlock and of inferRole
KwComments   == "comments"          \* a keyword of hasCodeRequirements
KwJailbreak  == "jailbreak"         \* matches /jailbreak/i, severity high
KwIgnorePrev == "ignore previous"   \* matches /ignore\s+(all\s+)?(previous|above|earlier)/i, high
KwYouAreNowA == "you are now a"     \* matches /you\s+are\s+now\s+a/i, severity medium

\* The texts the default rules add (rules engine, apply functions).
\* The role sentence "<please play the role of ROLE>.\n\n", one token per role label.
RoleLabels ==
  { "assistant", "software-engineer", "frontend-expert", "backend-expert",
    "content-creator", "copywriter", "product-manager", "designer",
    "translator", "data-analyst", "test-engineer", "architect" }
DirRole(role) ==
  CASE role = "assistant"         -> "role:assistant"
    [] role = "software-engineer" -> "role:software-engineer"
    [] role = "frontend-expert"   -> "role:frontend-expert"
    [] role = "backend-expert"    -> "role:backend-expert"
    [] role = "content-creator"   -> "role:content-creator"
    [] role = "copywriter"        -> "role:copywriter"
    [] role = "product-manager"   -> "role:product-manager"
    [] role = "designer"          -> "role:designer"
    [] role = "translator"        -> "role:translator"
    [] role = "data-analyst"      -> "role:data-analyst"
    [] role = "test-engineer"     -> "role:test-engineer"
    [] role = "architect"         -> "role:architect"
DirRoleTokens == { DirRole(r) : r \in RoleLabels }
\* The length of a role label in the source (its Chinese name).
RoleLabelLen(role) ==
  CASE role \in {"assistant", "translator"} -> 4
    [] role \in {"designer", "data-analyst", "test-engineer", "architect"} -> 5
    [] role \in {"frontend-expert", "backend-expert", "copywriter", "product-manager"} -> 6
    [] role \in {"software-engineer", "content-creator"} -> 7
DirStructure     == "dir:structure"    \* "\n\n<complete as follows:>\n1. ...\n2. ...\n3. ..."
DirFormat        == "dir:format"       \* "\n\n<output format requirement: ...>"
DirContext       == "dir:context"      \* "\n\n<please give detailed and comprehensive information.>"
DirCode          == "dir:code"         \* "\n\n<code requirements:>\n- <best practice>\n- <comments>\n- ..."

Whitespace == {"sp"}
Quotes     == {"q"}

\* String.prototype.trim: leading and trailing whitespace removed.
RECURSIVE TrimLeft(_)
TrimLeft(t) ==
  IF t # <<>> /\ Head(t) \in Whitespace THEN TrimLeft(Tail(t)) ELSE t

RECURSIVE TrimRight(_)
TrimRight(t) ==
  IF t # <<>> /\ t[Len(t)] \in Whitespace
  THEN TrimRight(SubSeq(t, 1, Len(t) - 1)) ELSE t

Trim(t) == TrimRight(TrimLeft(t))

\* The number of UTF-16 code units of a token (String.length).
TokLen(tok) ==
  CASE tok = KwYouAre         -> 7
    [] tok = KwNumbered       -> 3
    [] tok = KwFormat         -> 6
    [] tok = KwDetailed       -> 8
    [] tok = KwCode           -> 4
    [] tok = KwComments       -> 8
    [] tok = KwJailbreak      -> 9
    [] tok = KwIgnorePrev     -> 15
    [] tok = KwYouAreNowA     -> 13
    [] tok \in DirRoleTokens  ->
         9 + RoleLabelLen(CHOOSE r \in RoleLabels : DirRole(r) = tok)
    [] tok = DirStructure     -> 48
    [] tok = DirFormat        -> 20
    [] tok = DirContext       -> 14
    [] tok = DirCode          -> 44
    [] OTHER                  -> 1

RECURSIVE TextLen(_)
TextLen(t) == IF t = <<>> THEN 0 ELSE TokLen(Head(t)) + TextLen(Tail(t))

\* Some token of t is in the set S.
HasAny(t, S) == \E i \in 1..Len(t) : t[i] \in S

(***************************************************************************)
(* SecurityChecker (adversarial input screener)                            *)
(***************************************************************************)

\* attackPatterns, in table order: the severity of each of the 21 entries.
attackPatterns ==
  << "high", "high", "high", "high", "medium", "medium", "medium", "high",
     "high", "high", "high", "medium", "high", "high", "high", "high",
     "medium", "high", "high", "medium", "medium" >>

\* The entries of attackPatterns whose regular expression a token matches.
PatternsOf(tok) ==
  CASE tok = KwIgnorePrev -> {1}
    [] tok = KwYouAreNowA -> {7}
    [] tok = KwJailbreak  -> {10}
    [] OTHER              -> {}

\* pattern.test(content)
PatternTest(p, content) == \E i \in 1..Len(content) : p \in PatternsOf(content[i])

Redacted == "[filtered]"

\* content.replace(pattern, marker): the pattern is not global, so the first
\* match alone is replaced.
filterMaliciousContent(content, p) ==
  LET hits == { i \in 1..Len(content) : p \in PatternsOf(content[i]) }
      first == CHOOSE i \in hits : \A j \in hits : i <= j
  IN  IF hits = {} THEN content
      ELSE [ i \in 1..Len(content) |-> IF i = first THEN Redacted ELSE content[i] ]

\* A checker that would call everything below the high risk safe.
IsSafeBelowHigh(issues, maxSeverity) == maxSeverity # "high"
\* const isSafe = detectedIssues.length === 0 || maxSeverity === 'low'
IsSafe(issues, maxSeverity) == (issues = <<>>) \/ (maxSeverity = "low")

\* An escalation that would take the severity of the latest match.
EscalateToLatest(severity, maxSeverity) == severity
\* if (severity === 'high' || (severity === 'medium' && maxSeverity !== 'high'))
\*   maxSeverity = severity
Escalate(severity, maxSeverity) ==
  IF severity = "high" \/ (severity = "medium" /\ maxSeverity # "high")
  THEN severity ELSE maxSeverity

\* The loop of check over attackPatterns[k..], carrying the loop's variables.
RECURSIVE CheckLoop(_, _, _, _, _)
CheckLoop(k, content, issues, maxSeverity, filtered) ==
  IF k > Len(attackPatterns) THEN
    [ isSafe          |-> IsSafe(issues, maxSeverity),
      riskLevel       |-> maxSeverity,
      detectedIssues  |-> issues,
      hasFiltered     |-> maxSeverity = "high",
      filteredContent |-> IF maxSeverity = "high" THEN filtered ELSE <<>> ]
  ELSE IF PatternTest(k, content) THEN
    LET severity == attackPatterns[k] IN
    CheckLoop(k + 1, content, Append(issues, k),
              Escalate(severity, maxSeverity),
              IF severity = "high" THEN filterMaliciousContent(content, k)
                ELSE filtered)
  ELSE CheckLoop(k + 1, content, issues, maxSeverity, filtered)

\* SecurityChecker.check
SecurityCheck(content) == CheckLoop(1, content, <<>>, "low", content)

(***************************************************************************)
(* RulesEngine (rule-based optimizer, the builtin engine)                  *)
(***************************************************************************)

\* The keywords and patterns of the predicate helpers, as the tokens that
\* contain them.  The directives the rules add contain some of them too:
\* the role sentence a role keyword, the structure directive "1. ", the
\* format directive two format keywords and "<requirement>:", the context
\* directive two context keywords, the code directive "<requirement>:",
\* "- " and two code-requirement keywords.
RoleTokens      == {KwYouAre} \cup DirRoleTokens
StructureTokens == {KwNumbered, DirStructure, DirFormat, DirCode}
FormatTokens    == {KwFormat, DirFormat}
ContextTokens   == {KwDetailed, DirContext}
CodeReqTokens   == {KwComments, DirCode}
CodeTokens      == {KwCode, DirCode}

hasCodeBlock(text)        == HasAny(text, CodeTokens)
\* A helper that would not know the role sentence the engine itself adds.
hasRoleDefinitionInInput(text) == HasAny(text, {KwYouAre})
hasRoleDefinition(text)   == HasAny(text, RoleTokens)
hasStructure(text)        == HasAny(text, StructureTokens)
hasOutputFormat(text)     == HasAny(text, FormatTokens)
hasDetailedContext(text)  == HasAny(text, ContextTokens)
hasCodeRequirements(text) == HasAny(text, CodeReqTokens)

\* roleMap, in table order.  A keyword is named by its ASCII spelling; the
\* Chinese keywords by "zh:" and their pinyin.
roleMap ==
  << [keywords |-> {"zh:daima", "zh:chengxu", "code", "programming", "develop", "bug", "debug"},
      role |-> "software-engineer", weight |-> 10],
     [keywords |-> {"zh:qianduan", "frontend", "react", "vue", "angular", "css", "html"},
      role |-> "frontend-expert", weight |-> 9],
     [keywords |-> {"zh:houduan", "backend", "api", "database", "server"},
      role |-> "backend-expert", weight |-> 9],
     [keywords |-> {"zh:wenzhang", "zh:xiezuo", "article", "writing", "blog"},
      role |-> "content-creator", weight |-> 8],
     [keywords |-> {"zh:wenan", "zh:yingxiao", "copywriting", "marketing", "zh:guanggao"},
      role |-> "copywriter", weight |-> 8],
     [keywords |-> {"zh:chanpin", "product", "prd", "zh:xuqiu"},
      role |-> "product-manager", weight |-> 7],
     [keywords |-> {"zh:sheji", "design", "ui", "ux", "zh:jiemian"},
      role |-> "designer", weight |-> 7],
     [keywords |-> {"zh:fanyi", "translate", "translation"},
      role |-> "translator", weight |-> 9],
     [keywords |-> {"zh:fenxi", "analysis", "data", "zh:shuju"},
      role |-> "data-analyst", weight |-> 7],
     [keywords |-> {"zh:ceshi", "test", "qa", "quality"},
      role |-> "test-engineer", weight |-> 6],
     [keywords |-> {"zh:jiagou", "architecture", "zh:xitongsheji"},
      role |-> "architect", weight |-> 8] >>

\* The roleMap keywords a token contains, lower-cased.
KeywordsIn(tok) ==
  CASE tok = KwCode -> {"code"}
    [] OTHER        -> {}

TextKeywords(text) == UNION { KeywordsIn(text[i]) : i \in 1..Len(text) }

\* score of one roleMap entry: weight for every keyword found.
RoleScore(entry, text) ==
  entry.weight * Cardinality(entry.keywords \cap TextKeywords(text))

\* The loop of inferRole over roleMap[k..]: score > maxScore is strict.
RECURSIVE InferRoleLoop(_, _, _, _)
InferRoleLoop(k, text, maxScore, bestRole) ==
  IF k > Len(roleMap) THEN bestRole
  ELSE LET score == RoleScore(roleMap[k], text) IN
       IF score > maxScore
       THEN InferRoleLoop(k + 1, text, score, roleMap[k].role)
       ELSE InferRoleLoop(k + 1, text, maxScore, bestRole)

inferRole(text) == InferRoleLoop(1, text, 0, "assistant")

buildContext(text) ==
  [ inferredRole |-> inferRole(text),
    promptLength |-> TextLen(text),
    hasCodeBlock |-> hasCodeBlock(text) ]

\* A rule is [id, priority, kind, seq]; kind names its check and apply
\* functions, and seq says how many rules had been put into the list before
\* it, itself included (the order of insertion).
\* The five kinds of initializeDefaultRules, and the kinds of rules a caller
\* of addCustomRule may pass: one that appends a character, one whose check
\* throws, one whose apply throws, one whose apply returns the empty string.
DefaultKinds == {"role-definition", "structure-requirements", "output-format",
                 "context-enhancement", "code-specific"}
CustomKinds  == {"append-x", "check-throws", "apply-throws", "apply-empty"}

\* The length under which the context-enhancement rule applies.
ShortPromptLength == 50

\* rule.check(text, context) throws.
CheckThrows(rule) == rule.kind = "check-throws"
\* rule.apply(text, context) throws.
ApplyThrows(rule) == rule.kind = "apply-throws"

\* rule.check(text, context)
RuleCheck(rule, text, context) ==
  CASE rule.kind = "role-definition"        -> ~hasRoleDefinition(text)
    [] rule.kind = "structure-requirements" -> ~hasStructure(text)
    [] rule.kind = "output-format"          -> ~hasOutputFormat(text)
    [] rule.kind = "context-enhancement"    ->
         TextLen(text) < ShortPromptLength /\ ~hasDetailedContext(text)
    [] rule.kind = "code-specific"          ->
         context.hasCodeBlock /\ ~hasCodeRequirements(text)
    [] OTHER                                -> TRUE

\* rule.apply(text, context)
RuleApply(rule, text, context) ==
  CASE rule.kind = "role-definition"        -> <<DirRole(context.inferredRole)>> \o text
    [] rule.kind = "structure-requirements" -> Append(text, DirStructure)
    [] rule.kind = "output-format"          -> Append(text, DirFormat)
    [] rule.kind = "context-enhancement"    -> Append(text, DirContext)
    [] rule.kind = "code-specific"          -> Append(text, DirCode)
    [] rule.kind = "append-x"               -> Append(text, "x")
    [] rule.kind = "apply-empty"            -> <<>>
    [] OTHER                                -> text

\* A sort that would put a rule before the rules of its own priority.
RECURSIVE InsertByPriorityBefore(_, _)
InsertByPriorityBefore(sorted, r) ==
  IF sorted = <<>> THEN <<r>>
  ELSE IF Head(sorted).priority > r.priority
       THEN <<Head(sorted)>> \o InsertByPriorityBefore(Tail(sorted), r)
       ELSE <<r>> \o sorted
\* Array.prototype.sort((a, b) => b.priority - a.priority): stable, by
\* priority descending.  Insert r behind every rule of priority >= its own.
RECURSIVE InsertByPriority(_, _)
InsertByPriority(sorted, r) ==
  IF sorted = <<>> THEN <<r>>
  ELSE IF Head(sorted).priority >= r.priority
       THEN <<Head(sorted)>> \o InsertByPriority(Tail(sorted), r)
       ELSE <<r>> \o sorted

RECURSIVE SortByPriority(_)
SortByPriority(rules) ==
  IF rules = <<>> THEN <<>>
  ELSE InsertByPriority(SortByPriority(SubSeq(rules, 1, Len(rules) - 1)),
                        rules[Len(rules)])

\* initializeDefaultRules: the five rules as declared, then sorted.
DeclaredDefaultRules ==
  << [id |-> "role-definition",        priority |-> 100, kind |-> "role-definition", seq |-> 1],
     [id |-> "structure-requirements", priority |-> 80,  kind |-> "structure-requirements", seq |-> 2],
     [id |-> "output-format",          priority |-> 70,  kind |-> "output-format", seq |-> 3],
     [id |-> "context-enhancement",    priority |-> 60,  kind |-> "context-enhancement", seq |-> 4],
     [id |-> "code-specific",          priority |-> 90,  kind |-> "code-specific", seq |-> 5] >>

initializeDefaultRules == SortByPriority(DeclaredDefaultRules)

\* The constructor: every default rule enabled.
DefaultEnabledRuleIds == { DeclaredDefaultRules[i].id : i \in 1..Len(DeclaredDefaultRules) }

\* A loop that would apply every enabled rule without asking its check.
RECURSIVE ApplyRulesUnchecked(_, _, _, _, _)
ApplyRulesUnchecked(k, rules, enabledRuleIds, optimized, context) ==
  IF k > Len(rules) THEN [threw |-> FALSE, optimized |-> optimized, fired |-> <<>>]
  ELSE IF rules[k].id \notin enabledRuleIds
       THEN ApplyRulesUnchecked(k + 1, rules, enabledRuleIds, optimized, context)
       ELSE LET rest == ApplyRulesUnchecked(k + 1, rules, enabledRuleIds,
                                            RuleApply(rules[k], optimized, context),
                                            context)
            IN  [rest EXCEPT !.fired = <<k>> \o rest.fired]
\* The loop of RulesEngine.optimize over rules[k..].  The result says
\* whether an exception left the loop, the working text, and which rules
\* (their positions in the list) were applied, in the order of application.
RECURSIVE ApplyRules(_, _, _, _, _)
ApplyRules(k, rules, enabledRuleIds, optimized, context) ==
  IF k > Len(rules) THEN [threw |-> FALSE, optimized |-> optimized, fired |-> <<>>]
  ELSE LET rule == rules[k] IN
       IF rule.id \notin enabledRuleIds
       THEN ApplyRules(k + 1, rules, enabledRuleIds, optimized, context)
       ELSE IF CheckThrows(rule)
       THEN [threw |-> TRUE, optimized |-> optimized, fired |-> <<>>]
       ELSE IF ~RuleCheck(rule, optimized, context)
       THEN ApplyRules(k + 1, rules, enabledRuleIds, optimized, context)
       ELSE IF ApplyThrows(rule)
       THEN [threw |-> TRUE, optimized |-> optimized, fired |-> <<>>]
       ELSE LET rest == ApplyRules(k + 1, rules, enabledRuleIds,
                                   RuleApply(rule, optimized, context), context)
            IN  [rest EXCEPT !.fired = <<k>> \o rest.fired]

\* An engine that would return the trimmed prompt as the original.
RulesEngineOptimizeTrimmed(rules, enabledRuleIds, prompt) ==
  LET trimmed == Trim(prompt)
      run     == ApplyRules(1, rules, enabledRuleIds, trimmed, buildContext(trimmed))
  IN  [threw |-> run.threw, original |-> trimmed, optimized |-> run.optimized,
       fired |-> run.fired]
\* RulesEngine.optimize(prompt) of an engine with these rules and enabled ids.
RulesEngineOptimize(rules, enabledRuleIds, prompt) ==
  LET trimmed == Trim(prompt)
      run     == ApplyRules(1, rules, enabledRuleIds, trimmed, buildContext(trimmed))
  IN  [threw |-> run.threw, original |-> prompt, optimized |-> run.optimized,
       fired |-> run.fired]

(***************************************************************************)
(* System-prompt builder and provider adapters                             *)
(***************************************************************************)

\* PROMPT_METHOD_TAGS: the ids of the catalog, in order.
PROMPT_METHOD_TAGS ==
  << "roleplay", "reward", "stepwise", "structured", "completeness", "style", "refusal" >>

\* A system prompt is a sequence of lines.  A line is the base preamble, a
\* block header, the line of one tag ("- name: guidance", id the tag's id),
\* the line of one rule ("- name: content", id the rule's name) or the
\* blank line that join('\n\n') puts between two parts.
Line(kind, id, text) == [kind |-> kind, id |-> id, text |-> text]
SYSTEM_PROMPT_BASE == << Line("base", "", <<>>) >>
BlankLine == << Line("blank", "", <<>>) >>

\* parts.join('\n\n')
RECURSIVE JoinParts(_)
JoinParts(parts) ==
  IF parts = <<>> THEN <<>>
  ELSE IF Len(parts) = 1 THEN parts[1]
  ELSE parts[1] \o BlankLine \o JoinParts(Tail(parts))

\* A builder that would push both blocks whatever they hold.
buildSystemPromptBothBlocks(methodTagIds, customRules) ==
  LET IsSelected(tag) == tag \in methodTagIds
      selectedTags == SelectSeq(PROMPT_METHOD_TAGS, IsSelected)
      IsEnabled(rule) == rule.enabled
      enabledRules == SelectSeq(customRules, IsEnabled)
  IN  JoinParts(<< SYSTEM_PROMPT_BASE,
                   << Line("tag-header", "", <<>>) >> \o
                     [ i \in 1..Len(selectedTags) |-> Line("tag", selectedTags[i], <<>>) ],
                   << Line("rule-header", "", <<>>) >> \o
                     [ i \in 1..Len(enabledRules) |->
                         Line("rule", enabledRules[i].name, enabledRules[i].content) ] >>)
\* buildSystemPrompt(methodTagIds, customRules)
buildSystemPrompt(methodTagIds, customRules) ==
  LET IsSelected(tag) == tag \in methodTagIds
      selectedTags == SelectSeq(PROMPT_METHOD_TAGS, IsSelected)
      tagsPart ==
        IF Len(selectedTags) > 0
        THEN << << Line("tag-header", "", <<>>) >> \o
                [ i \in 1..Len(selectedTags) |-> Line("tag", selectedTags[i], <<>>) ] >>
        ELSE <<>>
      IsEnabled(rule) == rule.enabled
      enabledRules == SelectSeq(customRules, IsEnabled)
      rulesPart ==
        IF Len(enabledRules) > 0
        THEN << << Line("rule-header", "", <<>>) >> \o
                [ i \in 1..Len(enabledRules) |->
                    Line("rule", enabledRules[i].name, enabledRules[i].content) ] >>
        ELSE <<>>
  IN  JoinParts(<<SYSTEM_PROMPT_BASE>> \o tagsPart \o rulesPart)

\* A systemPrompt argument that is undefined: `systemPrompt || BASE` treats
\* it as it treats the empty string.
Undefined == <<>>

\* const systemContent = systemPrompt || SYSTEM_PROMPT_BASE
SystemContent(systemPrompt) ==
  IF systemPrompt = <<>> THEN SYSTEM_PROMPT_BASE ELSE systemPrompt

Providers == {"openai", "claude", "gemini", "grok", "openrouter", "ollama", "custom"}

\* A getAdapter that would know no adapter for a provider it has no case for.
getAdapterStrict(provider) ==
  CASE provider = "gemini" -> "GeminiAdapter"
    [] provider = "claude" -> "ClaudeAdapter"
    [] provider \in Providers -> "OpenAIAdapter"
    [] OTHER               -> "none"
\* getAdapter(provider): the switch, with its default branch.
getAdapter(provider) ==
  CASE provider = "gemini" -> "GeminiAdapter"
    [] provider = "claude" -> "ClaudeAdapter"
    [] OTHER               -> "OpenAIAdapter"

\* The characters cleanOutput strips from both ends: the OpenAI adapter's
\* class holds the straight and the curly quotes, the other two adapters'
\* class the straight quotes alone ("cq" is a curly quote).
StripClass(adapter) ==
  IF adapter = "OpenAIAdapter" THEN {"q", "cq", "sp"} ELSE {"q", "sp"}

RECURSIVE StripLeft(_, _)
StripLeft(t, class) ==
  IF t # <<>> /\ Head(t) \in class THEN StripLeft(Tail(t), class) ELSE t

RECURSIVE StripRight(_, _)
StripRight(t, class) ==
  IF t # <<>> /\ t[Len(t)] \in class
  THEN StripRight(SubSeq(t, 1, Len(t) - 1), class) ELSE t

\* cleanOutput(text): text.replace(/^[class]+|[class]+$/g, '').trim()
cleanOutput(adapter, text) ==
  Trim(StripRight(StripLeft(text, StripClass(adapter)), StripClass(adapter)))

\* The body of a 2xx reply: the content field may be missing.
\* data.<path to content> ?? prompt
ExtractContent(body, prompt) == IF body.hasContent THEN body.content ELSE prompt

\* Errors.  kind is the class of the thrown object; code is the ErrorCode
\* of an AppError; status is the HTTP status the message carries (0: none);
\* fetchText says whether the message contains 'fetch'.
Err(kind, code, message, status, fetchText) ==
  [kind |-> kind, code |-> code, message |-> message, status |-> status,
   fetchText |-> fetchText]
NoError == Err("none", "", "", 0, FALSE)
AppError(code, message) == Err("AppError", code, message, 0, FALSE)

ErrorCodes == {"EXTENSION_CONTEXT_INVALIDATED", "NETWORK_ERROR", "API_ERROR",
               "VALIDATION_ERROR", "STORAGE_ERROR", "UNKNOWN_ERROR"}

\* What the provider, or the network, answers to one HTTP request.
HttpOk(status) == status >= 200 /\ status <= 299

\* adapter.optimize after fetch has settled: the result it returns, or the
\* error it throws.  reply is [kind, status, body]: kind "network" (fetch
\* rejected), "http" (a response arrived), "badjson" (response.json() threw),
\* "nulljson" (response.json() gave null).
AdapterOptimizeSettle(adapter, prompt, promptIsString, reply) ==
  IF reply.kind = "network" THEN
    [threw |-> TRUE, error |-> Err("TypeError", "", "Failed to fetch", 0, TRUE),
     original |-> prompt, optimized |-> <<>>]
  ELSE IF ~HttpOk(reply.status) THEN
    IF adapter = "ClaudeAdapter" /\ reply.kind = "nulljson" THEN
      \* errorData is null: errorData.error?.message is a TypeError, thrown
      \* in place of the error that names the status
      [threw |-> TRUE,
       error |-> Err("TypeError", "", "Cannot read properties of null", 0, FALSE),
       original |-> prompt, optimized |-> <<>>]
    ELSE
      [threw |-> TRUE, error |-> Err("Error", "", "API error", reply.status, FALSE),
       original |-> prompt, optimized |-> <<>>]
  ELSE IF reply.kind = "nulljson" THEN
    \* data is null: data.choices (candidates, content) is a TypeError
    [threw |-> TRUE,
     error |-> Err("TypeError", "", "Cannot read properties of null", 0, FALSE),
     original |-> prompt, optimized |-> <<>>]
  ELSE IF reply.kind = "badjson" THEN
    [threw |-> TRUE, error |-> Err("SyntaxError", "", "Unexpected token", 0, FALSE),
     original |-> prompt, optimized |-> <<>>]
  ELSE IF ~reply.body.hasContent /\ ~promptIsString THEN
    \* cleanOutput of a prompt that is no string: text.replace is not a function
    [threw |-> TRUE, error |-> Err("TypeError", "", "replace is not a function", 0, FALSE),
     original |-> prompt, optimized |-> <<>>]
  ELSE
    [threw |-> FALSE, error |-> NoError, original |-> prompt,
     optimized |-> Trim(cleanOutput(adapter, ExtractContent(reply.body, prompt)))]

\* An adapter whose testConnection would let the exception through.
TestConnectionCatchRethrow(error) == [threw |-> TRUE, error |-> error, connected |-> FALSE]
\* The catch of an adapter's testConnection: `catch { return false; }`.
TestConnectionCatch(error) == [threw |-> FALSE, error |-> NoError, connected |-> FALSE]

\* adapter.testConnection after fetch has settled: response.ok, or what the
\* catch makes of the rejection of fetch.  The three adapters differ in the
\* request they send, not in what they do with the reply.
AdapterTestConnectionSettle(adapter, reply) ==
  IF reply.kind = "network"
  THEN TestConnectionCatch(Err("TypeError", "", "Failed to fetch", 0, TRUE))
  ELSE [threw |-> FALSE, error |-> NoError, connected |-> HttpOk(reply.status)]

\* ModelManager.testConnection: the adapter's answer, and false when the
\* adapter has thrown.
ManagerTestConnection(provider, reply) ==
  LET res == AdapterTestConnectionSettle(getAdapter(provider), reply) IN
  IF res.threw THEN [threw |-> FALSE, error |-> NoError, connected |-> FALSE] ELSE res

(***************************************************************************)
(* State                                                                   *)
(***************************************************************************)

VARIABLES
  settings,         \* chrome.storage.local 'settings'
  models,           \* chrome.storage.local 'models'
  custom_rules,     \* chrome.storage.local 'custom_rules'
  app,              \* OptionsApp: models, currentModelId, customRules, whether
                    \* its tag and rule sections are enabled, the model
                    \* deleteModel is deleting between its two writes, and
                    \* what the screener made of the rule it last sent to
                    \* be saved
  isLoading,        \* UIManager.isLoading
  abortController,  \* UIManager.abortController: "null" or "live"
  req,              \* the invocation of MessageHandler.handle in progress
  rules,            \* RulesEngine.rules of an engine its caller extends
  enabledRuleIds,   \* RulesEngine.enabledRuleIds of that engine
  outcome,          \* the last call of optimize on that engine
  built,            \* the last call of buildSystemPrompt
  passes,           \* the results of optimize called on a prompt and then on
                    \* its own output
  stats,            \* chrome.storage.local 'total_count' and 'daily_stats'
  recording,        \* the invocations of handle that are at recordOptimization
  handling,         \* one invocation of handle, for a message of any type:
                    \* where it stands, how it left its switch, how often it
                    \* has called sendResponse and with what
  inFlight,         \* the invocations of UIManager.handleOptimize that await
                    \* their response, and whether the user has cancelled them
  currentDialog,    \* UIManager.currentDialog: the compare dialog, and the
                    \* request whose result it shows
  clicks,           \* how many requests the page has started
  served            \* how many OPTIMIZE_PROMPT requests were answered with
                    \* success, what the statistics were at the start, and
                    \* whether a storage call of recordOptimization failed

storage == <<settings, models, custom_rules>>
ui      == <<isLoading, abortController>>
rulesEngine == <<rules, enabledRuleIds, outcome>>
statistics == <<stats, recording, served>>
page    == <<inFlight, currentDialog, clicks>>
aside   == <<built, passes, statistics, handling, page>>
vars    == <<storage, app, ui, req, rulesEngine, aside>>

\* The bounds of the model.
MaxModels == 1      \* model configs the options page keeps
MaxRules  == 1      \* custom rules the options page keeps

BuiltinRules == "builtin-rules"

\* `model-${Date.now()}` and `custom-rule-${now}`: the n-th id.
ModelId(n) ==
  CASE n = 1 -> "model-1" [] n = 2 -> "model-2" [] n = 3 -> "model-3" [] OTHER -> "model-4"
RuleId(n) ==
  CASE n = 1 -> "custom-rule-1" [] n = 2 -> "custom-rule-2" [] n = 3 -> "custom-rule-3"
    [] OTHER -> "custom-rule-4"

ModelConfig(n, provider) == [id |-> ModelId(n), provider |-> provider]
CustomRule(n, content, enabled) ==
  [id |-> RuleId(n), name |-> "n", content |-> content, enabled |-> enabled]

\* The providers of the configs the options page saves here: one for each
\* adapter.
SavedProviders == {"openai", "claude", "gemini"}

\* The providers of the configs a TEST_CONNECTION carries: the three, one
\* more of the ModelProvider type, and a string that is none of the type.
ProbedProviders == SavedProviders \cup {"custom", "unknown-provider"}

\* The tags the options page toggles here.
ToggledTags == {"roleplay", "stepwise"}

\* The contents a user gives a custom rule: harmless, of medium risk, of
\* high risk, of high and medium risk.
SafeContent   == <<"x">>
MediumContent == <<KwYouAreNowA>>
HighContent   == <<KwIgnorePrev>>
MixedContent  == <<KwIgnorePrev, KwYouAreNowA>>
RuleContents  == {SafeContent, MediumContent, HighContent, MixedContent}

\* The prompts of the messages.
Prompts ==
  { <<>>, <<"sp">>, <<"sp", "x", "sp">>, <<"q">>, <<KwCode>>,
    <<KwJailbreak>>, <<KwYouAreNowA>> }

\* The bodies of a provider's 2xx replies: content missing, empty, only
\* quotes and whitespace, in curly quotes, in straight quotes.
NoBody == [hasContent |-> FALSE, content |-> <<>>]
ReplyBodies ==
  { NoBody } \cup
  { [hasContent |-> TRUE, content |-> c] :
      c \in { <<>>, <<"q", "sp", "q">>, <<"cq", "x", "cq">>, <<"q", "x", "q">> } }

\* What the network answers to one HTTP request: fetch rejects, a 500, a
\* 500 whose body is the JSON text null, a 2xx whose body is no JSON, a 2xx
\* with a body.
Replies ==
  { [kind |-> "network", status |-> 0, body |-> NoBody],
    [kind |-> "http", status |-> 500, body |-> NoBody],
    [kind |-> "nulljson", status |-> 500, body |-> NoBody],
    [kind |-> "badjson", status |-> 200, body |-> NoBody] }
  \cup { [kind |-> "http", status |-> 200, body |-> b] : b \in ReplyBodies }

\* The messages: an OPTIMIZE_PROMPT with no payload, with a prompt that is
\* no string, with a prompt; a TEST_CONNECTION with no payload, with a config
\* that lacks its endpoint or its model, with a complete config.
Msg(type, hasPayload, promptIsString, prompt, endpoint, model, provider) ==
  [type |-> type, hasPayload |-> hasPayload, promptIsString |-> promptIsString,
   prompt |-> prompt, endpoint |-> endpoint, model |-> model, provider |-> provider]

OptimizeMessages ==
  { Msg("OPTIMIZE_PROMPT", FALSE, TRUE, <<>>, FALSE, FALSE, "") } \cup
  { Msg("OPTIMIZE_PROMPT", TRUE, FALSE, <<"x">>, FALSE, FALSE, "") } \cup
  { Msg("OPTIMIZE_PROMPT", TRUE, TRUE, p, FALSE, FALSE, "") : p \in Prompts }

TestMessages ==
  { Msg("TEST_CONNECTION", FALSE, TRUE, <<>>, FALSE, FALSE, ""),
    Msg("TEST_CONNECTION", TRUE, TRUE, <<>>, FALSE, TRUE, "openai"),
    Msg("TEST_CONNECTION", TRUE, TRUE, <<>>, TRUE, FALSE, "openai") } \cup
  { Msg("TEST_CONNECTION", TRUE, TRUE, <<>>, TRUE, TRUE, pr) : pr \in ProbedProviders }

NoModel    == [id |-> "", provider |-> ""]
NoRequest  == [adapter |-> "", system |-> <<>>, prompt |-> <<>>]
NoResult   == [original |-> <<>>, optimized |-> <<>>]
NoProbe    == [kind |-> "", status |-> 0, adapterThrew |-> FALSE]
NoResponse == [sent |-> FALSE, success |-> FALSE, error |-> "", data |-> NoResult,
               connected |-> FALSE]

\* req: where handle stands (pc), its message and who sent it, what
\* ModelManager read and did (read: the currentModelId of the settings it
\* got, or "absent"; modelId; whether the stored list had a model
\* of that id when it was read, engine, the HTTP requests it had an adapter
\* issue and the last of them, the error the adapter threw and the error
\* optimize threw), whether the screener saw the prompt, whether
\* recordOptimization succeeded, whether the user has cancelled and what
\* the background did after that, the reply to the adapter's request (of
\* optimize or of testConnection) and whether the adapter threw, and the
\* response given to sendResponse.
IdleReq ==
  [pc |-> "idle", msg |-> Msg("", FALSE, TRUE, <<>>, FALSE, FALSE, ""),
   origin |-> "", read |-> "", modelId |-> "", lookup |-> "", fetches |-> 0,
   sent |-> NoRequest, engine |-> "", raw |-> NoError, thrown |-> NoError, screened |-> FALSE, recorded |-> FALSE,
   cancelled |-> FALSE, afterCancel |-> {}, probe |-> NoProbe,
   response |-> NoResponse]

DefaultSettings ==
  [present |-> TRUE, currentModelId |-> BuiltinRules, promptMethodTagIds |-> {"roleplay"}]
NoSettings ==
  [present |-> FALSE, currentModelId |-> "", promptMethodTagIds |-> {}]

\* The SecurityCheckResult of the SAVE_CUSTOM_RULES handler for a content.
Checked(content) == [done |-> TRUE, content |-> content, result |-> SecurityCheck(content)]
NoCheck == [done |-> FALSE, content |-> <<>>, result |-> SecurityCheck(<<>>)]

NoOutcome ==
  [called |-> FALSE, prompt |-> <<>>, threw |-> FALSE, original |-> <<>>,
   optimized |-> <<>>, fired |-> <<>>]

\* new RulesEngine()
InitEngine ==
  /\ rules = initializeDefaultRules
  /\ enabledRuleIds = DefaultEnabledRuleIds
  /\ outcome = NoOutcome

\* updateOptimizationAvailability: the tag and custom-rule sections are
\* disabled while the builtin engine is selected.
Availability(currentModelId) == currentModelId # BuiltinRules

\* The most invocations of handle that overlap in recordOptimization, and
\* the most OPTIMIZE_PROMPT requests followed.
MaxOverlap == 2
MaxRequests == 3

\* getTodayString(): one day is followed.
Today == "today"

\* 'daily_stats' as stored: absent, of an earlier day, of today.
NoDailyStats == [present |-> FALSE, date |-> "", optimization_triggered |-> 0]
DailyStats(date, n) == [present |-> TRUE, date |-> date, optimization_triggered |-> n]
StoredDailyStats == {NoDailyStats, DailyStats("yesterday", 2), DailyStats(Today, 1)}

\* 'total_count' as stored: absent, or a number.
NoTotalCount == [present |-> FALSE, value |-> 0]
TotalCount(n) == [present |-> TRUE, value |-> n]
StoredTotalCounts == {NoTotalCount, TotalCount(2)}

\* getTodayCount(): today's optimization_triggered.
TodayCount(dailyStats) ==
  IF ~dailyStats.present \/ dailyStats.date # Today THEN 0
  ELSE dailyStats.optimization_triggered

\* An invocation that is not at recordOptimization.
NotRecording == [pc |-> "idle", dailyStats |-> NoDailyStats, totalCount |-> 0, failed |-> FALSE]

InitStatistics(totalCounts, dailyStats) ==
  /\ stats \in [total_count : totalCounts, daily_stats : dailyStats]
  /\ recording = [i \in 1..MaxOverlap |-> NotRecording]
  /\ served = [count |-> 0, started |-> 0, total0 |-> stats.total_count.value,
               today0 |-> TodayCount(stats.daily_stats), storageFailed |-> FALSE]

\* The most requests the chat page starts.
MaxClicks == 3

\* The chat page as loaded: no request, no dialog.
NoDialog == [open |-> FALSE, request |-> 0, cancelled |-> FALSE]
InitPage ==
  /\ inFlight = {}
  /\ currentDialog = NoDialog
  /\ clicks = 0

\* No invocation of handle is followed.
NotHandling ==
  [pc |-> "idle", type |-> "", payload |-> [present |-> FALSE], left |-> "",
   sends |-> 0, response |-> NoResponse]

\* Nobody has called buildSystemPrompt yet.
NoBuilt == [called |-> FALSE, methodTagIds |-> {}, customRules |-> <<>>, result |-> <<>>]
InitAside ==
  /\ built = NoBuilt
  /\ passes = <<>>
  /\ InitStatistics({NoTotalCount}, {NoDailyStats})
  /\ handling = NotHandling
  /\ InitPage

\* The service worker has started; the extension may not be installed yet.
InitBackground ==
  /\ settings \in {NoSettings, DefaultSettings}
  /\ models = <<>>
  /\ custom_rules = <<>>
  /\ app = [models |-> <<>>, currentModelId |-> BuiltinRules, customRules |-> <<>>,
            deleting |-> "", sectionsEnabled |-> FALSE, screened |-> NoCheck]
  /\ isLoading = FALSE
  /\ abortController = "null"
  /\ req = IdleReq
  /\ InitEngine
InitInstall ==
  /\ InitBackground
  /\ InitAside

\* Model lists, custom-rule lists and tag selections that the options page
\* leaves in the storage.
StoredModelLists ==
  { <<>>, <<ModelConfig(1, "openai")>>, <<ModelConfig(1, "claude")>>,
    <<ModelConfig(1, "gemini")>>, <<ModelConfig(1, "openai"), ModelConfig(2, "claude")>> }
StoredRuleLists ==
  { <<>>, <<CustomRule(1, SafeContent, TRUE)>>, <<CustomRule(1, SafeContent, FALSE)>>,
    <<CustomRule(1, HighContent, TRUE)>>,
    <<CustomRule(1, SafeContent, TRUE), CustomRule(2, MediumContent, TRUE)>> }
StoredTagSelections == { {}, {"roleplay"}, {"roleplay", "stepwise"} }

\* The chat page is opened, at any time of the extension's life: before the
\* install has written the defaults, or with the storage as the options
\* page has left it, the builtin engine selected.
Init ==
  /\ \/ /\ settings = NoSettings
        /\ models = <<>>
        /\ custom_rules = <<>>
     \/ /\ \E tags \in StoredTagSelections :
             settings = [DefaultSettings EXCEPT !.promptMethodTagIds = tags]
        /\ models \in StoredModelLists
        /\ custom_rules \in StoredRuleLists
  /\ app = [models |-> models, currentModelId |-> BuiltinRules,
            customRules |-> custom_rules, deleting |-> "", sectionsEnabled |-> FALSE,
            screened |-> NoCheck]
  /\ isLoading = FALSE
  /\ abortController = "null"
  /\ req = IdleReq
  /\ InitEngine
  /\ InitAside

(***************************************************************************)
(* Install, and the options page                                           *)
(***************************************************************************)

\* onInstalled: initDefaults writes the defaults when no settings exist.
InitDefaults ==
  /\ ~settings.present
  /\ req.pc # "done"
  /\ settings' = DefaultSettings
  /\ UNCHANGED <<aside, models, custom_rules, app, ui, req, rulesEngine>>

\* The options page is opened after the install, and one handler of it runs
\* at a time.  (A request that has answered is taken away first: see
\* HandleReturn.)
OptionsReady == settings.present /\ app.deleting = "" /\ req.pc # "done"

Ids(list) == { list[i].id : i \in 1..Len(list) }

\* OptionsApp.saveModel, a new model.
SaveModel(provider) ==
  /\ OptionsReady
  /\ Len(app.models) < MaxModels
  /\ LET n == CHOOSE i \in 1..MaxModels : ModelId(i) \notin Ids(app.models)
         list == Append(app.models, ModelConfig(n, provider))
     IN  /\ app' = [app EXCEPT !.models = list,
                               !.sectionsEnabled = Availability(app.currentModelId)]
         /\ models' = list
  /\ UNCHANGED <<aside, settings, custom_rules, ui, req, rulesEngine>>

\* OptionsApp.selectModel
SelectModel(modelId) ==
  /\ OptionsReady
  /\ modelId \in {BuiltinRules} \cup Ids(app.models)
  /\ modelId # app.currentModelId
  /\ app' = [app EXCEPT !.currentModelId = modelId,
                        !.sectionsEnabled = Availability(modelId)]
  /\ settings' = [settings EXCEPT !.currentModelId = modelId]
  /\ UNCHANGED <<aside, models, custom_rules, ui, req, rulesEngine>>

\* OptionsApp.deleteModel up to its first write: the model list.
DeleteModelWrite(id) ==
  /\ OptionsReady
  /\ id \in Ids(app.models)
  /\ LET Keep(m) == m.id # id
         list == SelectSeq(app.models, Keep)
     IN  /\ models' = list
         /\ app' = IF app.currentModelId = id
                   THEN [app EXCEPT !.models = list, !.currentModelId = BuiltinRules,
                                    !.deleting = id]
                   ELSE [app EXCEPT !.models = list]
  /\ UNCHANGED <<aside, settings, custom_rules, ui, req, rulesEngine>>

\* OptionsApp.deleteModel, its second write: the deleted model was the
\* selected one, and the settings go back to the builtin engine.
DeleteModelReset ==
  /\ app.deleting # ""
  /\ req.pc # "done"
  /\ settings' = [settings EXCEPT !.currentModelId = BuiltinRules]
  /\ app' = [app EXCEPT !.deleting = ""]
  /\ UNCHANGED <<aside, models, custom_rules, ui, req, rulesEngine>>

\* OptionsApp.savePromptMethodTags after one checkbox has changed.
TogglePromptMethodTag(tag) ==
  /\ OptionsReady
  /\ app.sectionsEnabled
  /\ settings' = [settings EXCEPT !.promptMethodTagIds =
                    IF tag \in @ THEN @ \ {tag} ELSE @ \cup {tag}]
  /\ UNCHANGED <<aside, models, custom_rules, app, ui, req, rulesEngine>>

\* The SAVE_CUSTOM_RULES handler stores the rule only if it has a content
\* and the screener finds the content safe.
AcceptsRule(content) == content # <<>> /\ SecurityCheck(content).isSafe

\* Whether OptionsApp.updateCustomRule stores the content: it asks nobody.
AcceptsUpdate(content) == TRUE

\* StorageManager.addCustomRule
AddCustomRule(list, n, content, enabled) ==
  Append(list, CustomRule(n, content, enabled))

\* OptionsApp.saveCustomRule, a new rule: the SAVE_CUSTOM_RULES message, its
\* handler, and loadCustomRules after a success.
SaveCustomRule(content, enabled) ==
  /\ OptionsReady
  /\ app.sectionsEnabled
  /\ Len(custom_rules) < MaxRules
  /\ LET n == CHOOSE i \in 1..MaxRules : RuleId(i) \notin Ids(custom_rules)
         stored == IF AcceptsRule(content)
                   THEN AddCustomRule(custom_rules, n, content, enabled)
                   ELSE custom_rules
     IN  /\ custom_rules' = stored
         /\ app' = IF AcceptsRule(content)
                   THEN [app EXCEPT !.customRules = stored,
                                    !.screened = Checked(content)]
                   ELSE [app EXCEPT !.screened = Checked(content)]
  /\ UNCHANGED <<aside, settings, models, ui, req, rulesEngine>>

\* OptionsApp.updateCustomRule(id, updates): the page's own list is changed
\* and written to the storage.
UpdateCustomRule(list, id, content, enabled) ==
  [ i \in 1..Len(list) |->
      IF list[i].id = id /\ AcceptsUpdate(content)
      THEN [list[i] EXCEPT !.content = content, !.enabled = enabled]
      ELSE list[i] ]

\* OptionsApp.saveCustomRule while a rule is being edited.
EditCustomRule(id, content, enabled) ==
  /\ OptionsReady
  /\ app.sectionsEnabled
  /\ id \in Ids(app.customRules)
  /\ LET list == UpdateCustomRule(app.customRules, id, content, enabled)
     IN  /\ custom_rules' = list
         /\ app' = [app EXCEPT !.customRules = list]
  /\ UNCHANGED <<aside, settings, models, ui, req, rulesEngine>>

\* OptionsApp.toggleCustomRule
ToggleCustomRule(id) ==
  /\ OptionsReady
  /\ app.sectionsEnabled
  /\ \E i \in 1..Len(app.customRules) :
       /\ app.customRules[i].id = id
       /\ LET list == UpdateCustomRule(app.customRules, id, app.customRules[i].content,
                                       ~app.customRules[i].enabled)
          IN  /\ custom_rules' = list
              /\ app' = [app EXCEPT !.customRules = list]
  /\ UNCHANGED <<aside, settings, models, ui, req, rulesEngine>>

\* OptionsApp.deleteCustomRule: the DELETE_CUSTOM_RULE message, its handler
\* (StorageManager.deleteCustomRule) and loadCustomRules.
DeleteCustomRule(id) ==
  /\ OptionsReady
  /\ app.sectionsEnabled
  /\ id \in Ids(app.customRules)
  /\ LET Keep(r) == r.id # id
         list == SelectSeq(custom_rules, Keep)
     IN  /\ custom_rules' = list
         /\ app' = [app EXCEPT !.customRules = list]
  /\ UNCHANGED <<aside, settings, models, ui, req, rulesEngine>>

NextOptions ==
  \/ InitDefaults
  \/ \E provider \in SavedProviders : SaveModel(provider)
  \/ \E id \in Ids(app.models) \cup {BuiltinRules} : SelectModel(id)
  \/ \E id \in Ids(app.models) : DeleteModelWrite(id)
  \/ DeleteModelReset
  \/ \E tag \in ToggledTags : TogglePromptMethodTag(tag)
  \/ \E content \in RuleContents, enabled \in BOOLEAN : SaveCustomRule(content, enabled)
  \/ \E id \in Ids(app.customRules), content \in RuleContents, enabled \in BOOLEAN :
       EditCustomRule(id, content, enabled)
  \/ \E id \in Ids(app.customRules) : ToggleCustomRule(id)
  \/ \E id \in Ids(app.customRules) : DeleteCustomRule(id)

\* The options page alone: the install, and the user's edits.
SpecOptions == InitInstall /\ [][NextOptions]_vars

(***************************************************************************)
(* MessageHandler.handle and ModelManager                                  *)
(***************************************************************************)

\* A handler that would take every OPTIMIZE_PROMPT payload.
ValidOptimizeRequestAny(msg) == TRUE
\* if (!request || !request.prompt): a prompt that is no string is truthy.
ValidOptimizeRequest(msg) ==
  msg.hasPayload /\ (msg.promptIsString => msg.prompt # <<>>)

\* if (!config || !config.endpoint || !config.model)
ValidTestConfig(msg) == msg.hasPayload /\ msg.endpoint /\ msg.model

\* ErrorHandler.getErrorMessage
getErrorMessage(error) ==
  IF error.kind = "AppError"
  THEN CASE error.code = "EXTENSION_CONTEXT_INVALIDATED" -> "refresh the page"
         [] error.code = "NETWORK_ERROR"                 -> "network failed"
         [] error.code = "STORAGE_ERROR"                 -> "storage failed"
         [] OTHER -> IF error.message # "" THEN error.message ELSE "failed"
  ELSE IF error.message # "" THEN error.message ELSE "failed"

\* The catch of handle: sendResponse({success: false, error}).
FailureResponse(error) ==
  [sent |-> TRUE, success |-> FALSE, error |-> getErrorMessage(error),
   data |-> NoResult, connected |-> FALSE]

\* sendResponse({success: true, data: result})
SuccessResponse(result) ==
  [sent |-> TRUE, success |-> TRUE, error |-> "", data |-> result, connected |-> FALSE]

\* sendResponse({success: true, data: {connected}})
ConnectedResponse(connected) ==
  [sent |-> TRUE, success |-> TRUE, error |-> "", data |-> NoResult,
   connected |-> connected]

\* A catch that would rethrow whatever it caught.
OptimizeCatchRethrow(error) == error
\* The catch of ModelManager.optimize.
OptimizeCatch(error) ==
  IF error.kind = "AppError" THEN error
  ELSE AppError("API_ERROR", "optimize failed")

\* The catch of ModelManager.callModelAPI.
CallModelAPICatch(error) ==
  IF error.kind = "AppError" THEN error
  ELSE IF error.kind = "TypeError" /\ error.fetchText
       THEN AppError("NETWORK_ERROR", "network failed")
       ELSE AppError("API_ERROR", "model API call failed")

\* StorageManager.get, when chrome.storage rejects.
StorageGetError == AppError("STORAGE_ERROR", "storage get failed")

\* A ModelManager that would take the id as stored, with no default.
ActiveModelIdStored(s) == s.currentModelId
\* settings?.currentModelId ?? 'builtin-rules'
ActiveModelId(s) == IF s.present THEN s.currentModelId ELSE BuiltinRules

\* models.find(m => m.id === modelId)
FindModel(list, modelId) ==
  IF \E i \in 1..Len(list) : list[i].id = modelId
  THEN list[CHOOSE i \in 1..Len(list) :
              list[i].id = modelId /\ \A j \in 1..(i - 1) : list[j].id # modelId]
  ELSE NoModel

\* The third argument callModelAPI gives adapter.optimize: it gives none.
CallModelAPISystemPrompt(s, customRules) == Undefined

\* this.rulesEngine.optimize(request.prompt), the engine of ModelManager:
\* the default rules, all enabled.  A prompt that is no string has no trim.
ManagerRulesOptimize(msg) ==
  IF msg.promptIsString
  THEN LET r == RulesEngineOptimize(initializeDefaultRules, DefaultEnabledRuleIds, msg.prompt)
       IN  [threw |-> r.threw, error |-> NoError,
            original |-> r.original, optimized |-> r.optimized]
  ELSE [threw |-> TRUE, error |-> Err("TypeError", "", "trim is not a function", 0, FALSE),
        original |-> msg.prompt, optimized |-> <<>>]

\* A handler that would run the screener on every prompt.
ScreensPromptAlways(msg) == TRUE
\* Whether handle runs the screener on the prompt of an OPTIMIZE_PROMPT: its
\* OPTIMIZE_PROMPT case never calls securityChecker.
ScreensPrompt(msg) == FALSE

\* A step the background takes for a request the user has cancelled.
Effect(r, what) == IF r.cancelled THEN r.afterCancel \cup {what} ELSE r.afterCancel

\* One invocation of handle is followed at a time: the next message is taken
\* when the last one has been answered and its answer taken away.
CanHandle == req.pc = "idle"

\* handle up to its first await.
HandleStart(msg, origin) ==
  LET r == [IdleReq EXCEPT !.msg = msg, !.origin = origin] IN
  IF msg.type = "OPTIMIZE_PROMPT" THEN
    IF ~ValidOptimizeRequest(msg)
    THEN [r EXCEPT !.pc = "done",
            !.response = FailureResponse(AppError("VALIDATION_ERROR", "prompt missing"))]
    ELSE IF ScreensPrompt(msg) /\ ~SecurityCheck(msg.prompt).isSafe
    THEN [r EXCEPT !.pc = "done", !.screened = TRUE,
            !.response = FailureResponse(AppError("VALIDATION_ERROR", "unsafe prompt"))]
    ELSE [r EXCEPT !.pc = "getSettings", !.screened = ScreensPrompt(msg)]
  ELSE
    IF ~ValidTestConfig(msg)
    THEN [r EXCEPT !.pc = "done",
            !.response = FailureResponse(AppError("VALIDATION_ERROR", "config missing"))]
    ELSE [r EXCEPT !.pc = "probe", !.fetches = 1,
            !.sent = [adapter |-> getAdapter(msg.provider), system |-> <<>>,
                      prompt |-> <<>>]]

\* A message from any sender.
HandleMessage(msg) ==
  /\ CanHandle
  /\ req' = HandleStart(msg, "other")
  /\ UNCHANGED <<aside, storage, app, ui, rulesEngine>>

\* ModelManager.optimize has thrown error: handle's catch answers.
Thrown(r, error) ==
  [r EXCEPT !.pc = "done", !.thrown = error, !.response = FailureResponse(error)]

\* ModelManager.optimize has returned result by engine: handle goes on to
\* recordOptimization.
Returned(r, engine, result) ==
  [r EXCEPT !.pc = "record", !.engine = engine,
            !.response = [NoResponse EXCEPT !.data =
                            [original |-> result.original, optimized |-> result.optimized]]]

\* The rule engine's turn, as the builtin engine or as the fallback.
ByRulesEngine(r, engine) ==
  LET res == ManagerRulesOptimize(r.msg) IN
  IF res.threw THEN Thrown([r EXCEPT !.engine = engine], OptimizeCatch(res.error))
  ELSE Returned(r, engine, res)

\* ModelManager.optimize: storage.get('settings') settles.
GetSettings ==
  /\ req.pc = "getSettings"
  /\ \E ok \in BOOLEAN :
       req' = LET r == [req EXCEPT !.afterCancel = Effect(req, "read settings"),
                                  !.read = IF ~ok THEN ""
                                           ELSE IF settings.present
                                           THEN settings.currentModelId
                                           ELSE "absent"] IN
              IF ~ok THEN Thrown(r, OptimizeCatch(StorageGetError))
              ELSE IF ActiveModelId(settings) = BuiltinRules
              THEN ByRulesEngine(r, "builtin")
              ELSE [r EXCEPT !.pc = "getModels", !.modelId = ActiveModelId(settings)]
  /\ UNCHANGED <<aside, storage, app, ui, rulesEngine>>

\* A ModelManager that would throw when no stored model has the id.
OnModelNotFoundThrow == "throw"
\* What ModelManager.optimize does when no stored model has the active id:
\* it logs the error and lets the rule engine answer.
OnModelNotFound == "fallback"

\* ModelManager.optimize: getModels settles; the model is looked up and,
\* when found, callModelAPI has the adapter issue its HTTP request.
GetModels ==
  /\ req.pc = "getModels"
  /\ \E ok \in BOOLEAN :
       req' = LET r == [req EXCEPT !.afterCancel = Effect(req, "read models"),
                                  !.lookup = IF ~ok THEN ""
                                             ELSE IF req.modelId \in Ids(models)
                                             THEN "known" ELSE "unknown"]
                  model == FindModel(models, req.modelId)
              IN
              IF ~ok THEN Thrown(r, OptimizeCatch(StorageGetError))
              ELSE IF model = NoModel
              THEN IF OnModelNotFound = "fallback" THEN ByRulesEngine(r, "fallback")
                   ELSE Thrown(r, OptimizeCatch(AppError("API_ERROR", "model not found")))
              ELSE [r EXCEPT !.pc = "fetch", !.engine = "adapter",
                      !.fetches = @ + 1,
                      !.afterCancel = Effect(r, "http request"),
                      !.sent = [adapter |-> getAdapter(model.provider),
                                system |-> SystemContent(
                                  CallModelAPISystemPrompt(settings, custom_rules)),
                                prompt |-> r.msg.prompt]]
  /\ UNCHANGED <<aside, storage, app, ui, rulesEngine>>

\* A ModelManager that would issue the request once more.
OnAdapterFailureRetry(error) == "retry"
\* What ModelManager does with a failed adapter call: "throw", or "retry"
\* the request, or "fallback" to the builtin engine.  callModelAPI and
\* optimize catch the error, wrap it and throw.
OnAdapterFailure(error) == "throw"

\* adapter.optimize: fetch settles, and callModelAPI and optimize pass the
\* result on or wrap the error.
FetchSettle(reply) ==
  /\ req.pc = "fetch"
  /\ req' = LET res == AdapterOptimizeSettle(req.sent.adapter, req.msg.prompt,
                                             req.msg.promptIsString, reply)
                r == [req EXCEPT !.afterCancel = Effect(req, "response processed"),
                                 !.probe = [kind |-> reply.kind, status |-> reply.status,
                                            adapterThrew |-> res.threw]]
            IN
            IF ~res.threw THEN Returned(r, "adapter", res)
            ELSE IF OnAdapterFailure(res.error) = "retry" /\ r.fetches < 2
            THEN [r EXCEPT !.fetches = @ + 1, !.raw = res.error]
            ELSE IF OnAdapterFailure(res.error) = "fallback"
            THEN ByRulesEngine([r EXCEPT !.raw = res.error], "fallback")
            ELSE Thrown([r EXCEPT !.raw = res.error],
                        OptimizeCatch(CallModelAPICatch(res.error)))
  /\ UNCHANGED <<aside, storage, app, ui, rulesEngine>>

\* handle after optimize has returned: recordOptimization, whose failure
\* is logged and dropped, then sendResponse.
RecordAndRespond ==
  /\ req.pc = "record"
  /\ \E ok \in BOOLEAN :
       req' = [req EXCEPT !.pc = "done", !.recorded = ok,
                 !.afterCancel = Effect(req, "statistic recorded"),
                 !.response = SuccessResponse(req.response.data)]
  /\ UNCHANGED <<aside, storage, app, ui, rulesEngine>>

\* ModelManager.testConnection: the adapter's probe settles.
ProbeSettle(reply) ==
  /\ req.pc = "probe"
  /\ req' = LET res == ManagerTestConnection(req.msg.provider, reply) IN
            [req EXCEPT !.pc = "done",
               !.probe = [kind |-> reply.kind, status |-> reply.status,
                          adapterThrew |->
                            AdapterTestConnectionSettle(req.sent.adapter, reply).threw],
               !.response = IF res.threw THEN FailureResponse(res.error)
                            ELSE ConnectedResponse(res.connected)]
  /\ UNCHANGED <<aside, storage, app, ui, rulesEngine>>


\* The sender of a message other than the chat page's button has its
\* answer.
HandleReturn ==
  /\ req.pc = "done"
  /\ req.origin = "other"
  /\ req' = IdleReq
  /\ UNCHANGED <<aside, storage, app, ui, rulesEngine>>

(***************************************************************************)
(* UIManager: the optimize button of the chat page                         *)
(***************************************************************************)

\* The button is clicked while nothing is loading: handleOptimize up to
\* its sendMessage.
UIHandleOptimize(prompt) ==
  /\ ~isLoading
  /\ Trim(prompt) # <<>>
  /\ CanHandle
  /\ abortController' = "live"
  /\ isLoading' = TRUE
  /\ req' = HandleStart(Msg("OPTIMIZE_PROMPT", TRUE, TRUE, prompt, FALSE, FALSE, ""), "ui")
  /\ UNCHANGED <<aside, storage, app, rulesEngine>>

\* The button is clicked while loading: cancelOptimize.  The controller's
\* signal is given to nobody, so the background learns nothing of it.
UICancelOptimize ==
  /\ isLoading
  /\ abortController = "live"
  /\ req.origin = "ui"
  /\ req.pc # "done"
  /\ abortController' = "null"
  /\ isLoading' = FALSE
  /\ req' = [req EXCEPT !.cancelled = TRUE]
  /\ UNCHANGED <<aside, storage, app, rulesEngine>>

\* handleOptimize after its sendMessage: the response has arrived, and the
\* finally block has run.
UIResponse ==
  /\ req.pc = "done"
  /\ req.origin = "ui"
  /\ req' = IdleReq
  /\ isLoading' = FALSE
  /\ abortController' = "null"
  /\ UNCHANGED <<aside, storage, app, rulesEngine>>

Next ==
  \/ InitDefaults
  \/ \E id \in Ids(app.models) \cup {BuiltinRules} : SelectModel(id)
  \/ \E id \in Ids(app.models) : DeleteModelWrite(id)
  \/ DeleteModelReset
  \/ \E msg \in OptimizeMessages \cup TestMessages : HandleMessage(msg)
  \/ GetSettings
  \/ GetModels
  \/ \E reply \in Replies : FetchSettle(reply)
  \/ RecordAndRespond
  \/ \E reply \in Replies : ProbeSettle(reply)
  \/ HandleReturn
  \/ \E prompt \in Prompts : UIHandleOptimize(prompt)
  \/ UICancelOptimize
  \/ UIResponse

\* The background's message handler, the chat page's button, and the
\* options page's choice of the model.
Spec == Init /\ [][Next]_vars

(***************************************************************************)
(* A RulesEngine whose caller adds, enables and disables rules             *)
(***************************************************************************)

\* The custom rules a caller adds to one engine.
MaxCustomRules == 1

\* The rules a caller passes to addCustomRule: under an id of its own or
\* under the id of a default rule, with a priority between those of two
\* default rules or equal to that of one.
CustomRuleIds == {"custom-a", "role-definition"}
CustomPriorities == {95, 80}
EngineCustomRules ==
  { [id |-> id, priority |-> p, kind |-> kind] :
      id \in CustomRuleIds, p \in CustomPriorities, kind \in CustomKinds }

\* The engine is called by one caller at a time: while the outcome of a
\* call of optimize is with the caller, nothing else happens to the engine.
EngineReady == ~outcome.called

\* The prompts the engine is called with: the empty one, one with
\* whitespace at its ends, one with a code keyword, one that has a role
\* phrase, a numbered item and a format keyword, and the
\* Chinese for 'write a sorting algorithm' (xie yi ge paixu suanfa), seven
\* characters in which none of the code's keywords occurs.
StructuredPrompt == <<KwYouAre, KwNumbered, KwFormat>>
AlgorithmPrompt  == <<"x", "x", "x", "x", "x", "x", "x">>
EnginePrompts    ==
  { <<>>, <<"sp", "x", "sp">>, <<KwCode>>, StructuredPrompt, AlgorithmPrompt }

RuleIds(list) == { list[i].id : i \in 1..Len(list) }

\* RulesEngine.addCustomRule(rule)
addCustomRule(rule) ==
  /\ EngineReady
  /\ Len(rules) < Len(DeclaredDefaultRules) + MaxCustomRules
  /\ rules' = SortByPriority(Append(rules,
                 [id |-> rule.id, priority |-> rule.priority, kind |-> rule.kind,
                  seq |-> Len(rules) + 1]))
  /\ enabledRuleIds' = enabledRuleIds \cup {rule.id}
  /\ UNCHANGED <<aside, storage, app, ui, req, outcome>>

\* RulesEngine.enableRule(ruleId)
enableRule(ruleId) ==
  /\ EngineReady
  /\ enabledRuleIds' = enabledRuleIds \cup {ruleId}
  /\ UNCHANGED <<aside, storage, app, ui, req, rules, outcome>>

\* RulesEngine.disableRule(ruleId)
disableRule(ruleId) ==
  /\ EngineReady
  /\ enabledRuleIds' = enabledRuleIds \ {ruleId}
  /\ UNCHANGED <<aside, storage, app, ui, req, rules, outcome>>

\* RulesEngine.optimize(prompt): it returns its result, or the exception of
\* a rule's check or apply leaves it.
optimize(prompt) ==
  /\ EngineReady
  /\ LET r == RulesEngineOptimize(rules, enabledRuleIds, prompt)
     IN  outcome' = [called |-> TRUE, prompt |-> prompt, threw |-> r.threw,
                     original |-> r.original,
                     optimized |-> IF r.threw THEN <<>> ELSE r.optimized,
                     fired |-> IF r.threw THEN <<>> ELSE r.fired]
  /\ UNCHANGED <<aside, storage, app, ui, req, rules, enabledRuleIds>>

\* The caller has the outcome of its call.
optimizeReturn ==
  /\ outcome.called
  /\ outcome' = NoOutcome
  /\ UNCHANGED <<aside, storage, app, ui, req, rules, enabledRuleIds>>

NextRules ==
  \/ \E rule \in EngineCustomRules : addCustomRule(rule)
  \/ \E ruleId \in RuleIds(rules) : enableRule(ruleId)
  \/ \E ruleId \in RuleIds(rules) : disableRule(ruleId)
  \/ \E prompt \in EnginePrompts : optimize(prompt)
  \/ optimizeReturn

\* The rule engine as its callers use it.
InitRules == InitInstall /\ settings = DefaultSettings
SpecRules == InitRules /\ [][NextRules]_vars


(***************************************************************************)
(* The screener as its callers use it                                      *)
(***************************************************************************)

\* The longest content given to check here.
MaxContentLen == 3

\* The characters and phrases of the contents: a character, a whitespace,
\* and a phrase for each of three entries of attackPatterns (two of high
\* severity on either side of one of medium severity).
ContentTokens == {"x", "sp", KwIgnorePrev, KwYouAreNowA, KwJailbreak}

RECURSIVE TextsUpTo(_, _)
TextsUpTo(S, n) ==
  IF n = 0 THEN {<<>>}
  ELSE LET shorter == TextsUpTo(S, n - 1)
       IN  shorter \cup { Append(t, c) : t \in shorter, c \in S }

CheckedContents == TextsUpTo(ContentTokens, MaxContentLen)

\* SecurityChecker.check(content): a pure function, the caller keeps its result.
check(content) ==
  /\ app' = [app EXCEPT !.screened = Checked(content)]
  /\ UNCHANGED <<page, handling, built, passes, statistics, storage, ui, req, rulesEngine>>

NextChecker == \E content \in CheckedContents : check(content)

InitChecker == InitInstall /\ settings = DefaultSettings
SpecChecker == InitChecker /\ [][NextChecker]_vars

(***************************************************************************)
(* The system-prompt builder as a caller would use it                      *)
(***************************************************************************)

\* The longest list of custom rules given to buildSystemPrompt here.
MaxPromptRules == 2

\* The methodTagIds arguments: ids of the catalog, and one that is not.
SelectableTagIds == {"roleplay", "stepwise", "no-such-tag"}

\* The customRules arguments: rules named "n" or "m", enabled or not.
PromptRule(name, enabled) ==
  [id |-> name, name |-> name, content |-> <<"x">>, enabled |-> enabled]
PromptRuleLists ==
  TextsUpTo({ PromptRule(name, enabled) : name \in {"n", "m"}, enabled \in BOOLEAN },
            MaxPromptRules)

\* buildSystemPrompt(methodTagIds, customRules) is called and returns.
CallBuildSystemPrompt(methodTagIds, customRules) ==
  /\ built' = [called |-> TRUE, methodTagIds |-> methodTagIds,
               customRules |-> customRules,
               result |-> buildSystemPrompt(methodTagIds, customRules)]
  /\ UNCHANGED <<page, handling, passes, statistics, storage, app, ui, req, rulesEngine>>

NextBuilder ==
  \E methodTagIds \in SUBSET SelectableTagIds, customRules \in PromptRuleLists :
    CallBuildSystemPrompt(methodTagIds, customRules)

InitBuilder == InitInstall /\ settings = DefaultSettings
SpecBuilder == InitBuilder /\ [][NextBuilder]_vars

(***************************************************************************)
(* The rule engine called on its own output                                *)
(***************************************************************************)

\* The longest prompt given to the engine here.
MaxPromptLen == 3

\* The characters and phrases of the prompts: a character, a whitespace, and
\* a phrase for each predicate helper of the engine.
PromptTokens ==
  {"x", "sp", KwYouAre, KwNumbered, KwFormat, KwDetailed, KwCode, KwComments}

TwoPassPrompts == TextsUpTo(PromptTokens, MaxPromptLen)

\* optimize(prompt) on an engine as constructed.
optimizeFirst(prompt) ==
  /\ passes = <<>>
  /\ passes' = << RulesEngineOptimize(rules, enabledRuleIds, prompt) >>
  /\ UNCHANGED <<page, handling, built, statistics, storage, app, ui, req, rulesEngine>>

\* optimize(result.optimized), result being what the first call returned.
optimizeSecond ==
  /\ Len(passes) = 1
  /\ ~passes[1].threw
  /\ passes' = Append(passes, RulesEngineOptimize(rules, enabledRuleIds, passes[1].optimized))
  /\ UNCHANGED <<page, handling, built, statistics, storage, app, ui, req, rulesEngine>>

\* The caller has both results.
passesReturn ==
  /\ Len(passes) = 2
  /\ passes' = <<>>
  /\ UNCHANGED <<page, handling, built, statistics, storage, app, ui, req, rulesEngine>>

NextTwoPasses ==
  \/ \E prompt \in TwoPassPrompts : optimizeFirst(prompt)
  \/ optimizeSecond
  \/ passesReturn

InitTwoPasses == InitInstall /\ settings = DefaultSettings
SpecTwoPasses == InitTwoPasses /\ [][NextTwoPasses]_vars

(***************************************************************************)
(* The usage statistics: recordOptimization in overlapping invocations     *)
(***************************************************************************)

\* handle, OPTIMIZE_PROMPT: modelManager.optimize has returned a result, and
\* recordOptimization is called; it runs up to its first await.
RecordOptimizationStart(i) ==
  /\ recording[i].pc = "idle"
  /\ served.started < MaxRequests
  /\ recording' = [recording EXCEPT ![i] = [NotRecording EXCEPT !.pc = "getDailyStats"]]
  /\ served' = [served EXCEPT !.started = @ + 1]
  /\ UNCHANGED <<page, handling, built, passes, stats, storage, app, ui, req, rulesEngine>>

\* A storage call of recordOptimization rejects: recordOptimization rejects,
\* handle logs the error and goes on to sendResponse.
RecordOptimizationFails(i) ==
  /\ recording[i].pc \in {"getDailyStats", "getTotalCount", "setDailyStats", "setTotalCount"}
  /\ recording' = [recording EXCEPT ![i].pc = "sendResponse", ![i].failed = TRUE]
  /\ served' = [served EXCEPT !.storageFailed = TRUE]
  /\ UNCHANGED <<page, handling, built, passes, stats, storage, app, ui, req, rulesEngine>>

\* const dailyStats = await this.get('daily_stats')
GetDailyStats(i) ==
  /\ recording[i].pc = "getDailyStats"
  /\ recording' = [recording EXCEPT ![i].pc = "getTotalCount",
                                    ![i].dailyStats = stats.daily_stats]
  /\ UNCHANGED <<page, handling, built, passes, stats, served, storage, app, ui, req, rulesEngine>>

\* const totalCount = (await this.get('total_count')) ?? 0
GetTotalCount(i) ==
  /\ recording[i].pc = "getTotalCount"
  /\ recording' = [recording EXCEPT ![i].pc = "setDailyStats",
                                    ![i].totalCount = stats.total_count.value]
  /\ UNCHANGED <<page, handling, built, passes, stats, served, storage, app, ui, req, rulesEngine>>

\* await this.set('daily_stats', ...): 1 on a new day, else the count that
\* was read and one more.
SetDailyStats(i) ==
  /\ recording[i].pc = "setDailyStats"
  /\ stats' = [stats EXCEPT !.daily_stats =
                 LET dailyStats == recording[i].dailyStats IN
                 IF ~dailyStats.present \/ dailyStats.date # Today
                 THEN DailyStats(Today, 1)
                 ELSE DailyStats(Today, dailyStats.optimization_triggered + 1)]
  /\ recording' = [recording EXCEPT ![i].pc = "setTotalCount"]
  /\ UNCHANGED <<page, handling, built, passes, served, storage, app, ui, req, rulesEngine>>

\* await this.set('total_count', totalCount + 1)
SetTotalCount(i) ==
  /\ recording[i].pc = "setTotalCount"
  /\ stats' = [stats EXCEPT !.total_count = TotalCount(recording[i].totalCount + 1)]
  /\ recording' = [recording EXCEPT ![i].pc = "sendResponse"]
  /\ UNCHANGED <<page, handling, built, passes, served, storage, app, ui, req, rulesEngine>>

\* sendResponse({ success: true, data: result }): the request is answered.
RecordedSendResponse(i) ==
  /\ recording[i].pc = "sendResponse"
  /\ recording' = [recording EXCEPT ![i] = NotRecording]
  /\ served' = [served EXCEPT !.count = @ + 1]
  /\ UNCHANGED <<page, handling, built, passes, stats, storage, app, ui, req, rulesEngine>>

NextStatistics ==
  \E i \in 1..MaxOverlap :
    \/ RecordOptimizationStart(i)
    \/ RecordOptimizationFails(i)
    \/ GetDailyStats(i)
    \/ GetTotalCount(i)
    \/ SetDailyStats(i)
    \/ SetTotalCount(i)
    \/ RecordedSendResponse(i)

\* The statistics of an extension that has been in use.
InitStatisticsSpec ==
  /\ InitBackground
  /\ settings = DefaultSettings
  /\ built = NoBuilt
  /\ passes = <<>>
  /\ handling = NotHandling
  /\ InitPage
  /\ InitStatistics(StoredTotalCounts, StoredDailyStats)
SpecStatistics == InitStatisticsSpec /\ [][NextStatistics]_vars

(***************************************************************************)
(* MessageHandler.handle, for a message of any type                        *)
(***************************************************************************)

\* A message: its type and its payload.  A message that is null has the
\* type "null"; "NO_SUCH_TYPE" is a type the switch has no case for.
Message(type, payload) == [type |-> type, payload |-> payload]
NoPayload == [present |-> FALSE]
MessageTypes ==
  { "OPTIMIZE_PROMPT", "TEST_CONNECTION", "GET_SETTINGS", "SAVE_SETTINGS",
    "GET_CUSTOM_RULES", "SAVE_CUSTOM_RULES", "DELETE_CUSTOM_RULE", "OPEN_OPTIONS" }

\* The payloads: the requests and configs of OptimizeMessages and
\* TestMessages, settings, rules with and without a name and a content,
\* rule ids.
SettingsPayloads ==
  { [present |-> TRUE, settings |-> DefaultSettings],
    [present |-> TRUE, settings |-> [DefaultSettings EXCEPT !.promptMethodTagIds = {}]] }
RulePayloads ==
  { [present |-> TRUE, hasName |-> n, content |-> c] :
      n \in BOOLEAN, c \in {<<>>, SafeContent, MediumContent, HighContent} }
RuleIdPayloads ==
  { [present |-> TRUE, ruleId |-> id] : id \in {"", RuleId(1), "no-such-rule"} }

AllMessages ==
  { Message(m.type, [present |-> TRUE, request |-> m]) : m \in OptimizeMessages \cup TestMessages }
  \cup { Message(t, NoPayload) : t \in MessageTypes \cup {"NO_SUCH_TYPE", "null"} }
  \cup { Message("SAVE_SETTINGS", p) : p \in SettingsPayloads }
  \cup { Message("SAVE_CUSTOM_RULES", p) : p \in RulePayloads }
  \cup { Message("DELETE_CUSTOM_RULE", p) : p \in RuleIdPayloads }
  \cup { Message(t, [present |-> TRUE]) : t \in {"GET_SETTINGS", "GET_CUSTOM_RULES", "OPEN_OPTIONS"} }

\* sendResponse(response)
SendResponse(h, response) == [h EXCEPT !.sends = @ + 1, !.response = response]

\* A catch that would log the error and answer nothing.
HandleCatchSilent(h, error) == [h EXCEPT !.pc = "done", !.left = "threw"]
\* The catch of handle: logError, getErrorMessage, sendResponse.
HandleCatch(h, error) ==
  SendResponse([h EXCEPT !.pc = "done", !.left = "threw"], FailureResponse(error))

\* A case of the switch calls sendResponse and breaks.
HandleBreak(h, response) ==
  SendResponse([h EXCEPT !.pc = "done", !.left = "returned"], response)

\* What the case of a message throws before its first await, or NoError.
\* A payload of the two first types is valid as ValidOptimizeRequest and
\* ValidTestConfig say.
ThrownAtOnce(msg) ==
  LET p == msg.payload IN
  CASE msg.type = "null" ->
         Err("TypeError", "", "Cannot read properties of null", 0, FALSE)
    [] msg.type = "OPTIMIZE_PROMPT" ->
         IF p.present /\ ValidOptimizeRequest(p.request) THEN NoError
         ELSE AppError("VALIDATION_ERROR", "prompt missing")
    [] msg.type = "TEST_CONNECTION" ->
         IF p.present /\ ValidTestConfig(p.request) THEN NoError
         ELSE AppError("VALIDATION_ERROR", "config missing")
    [] msg.type = "SAVE_SETTINGS" ->
         IF p.present THEN NoError ELSE AppError("VALIDATION_ERROR", "settings missing")
    [] msg.type = "SAVE_CUSTOM_RULES" ->
         IF ~p.present THEN AppError("VALIDATION_ERROR", "rule data missing")
         ELSE IF ~p.hasName \/ p.content = <<>>
         THEN AppError("VALIDATION_ERROR", "rule data missing")
         ELSE IF ~SecurityCheck(p.content).isSafe
         THEN AppError("VALIDATION_ERROR", "unsafe rule content")
         ELSE NoError
    [] msg.type = "DELETE_CUSTOM_RULE" ->
         IF p.present /\ p.ruleId # "" THEN NoError
         ELSE AppError("VALIDATION_ERROR", "rule id missing")
    [] msg.type \in {"GET_SETTINGS", "GET_CUSTOM_RULES", "OPEN_OPTIONS"} -> NoError
    [] OTHER -> AppError("UNKNOWN_ERROR", "unknown message type")

\* What the case throws when the call it awaits rejects.
ThrownOnReject(type) ==
  CASE type = "OPTIMIZE_PROMPT" -> AppError("API_ERROR", "optimize failed")
    [] type = "OPEN_OPTIONS"    -> AppError("UNKNOWN_ERROR", "cannot open the options page")
    [] OTHER                    -> AppError("STORAGE_ERROR", "storage failed")

\* handle(message, sender, sendResponse) up to its first await, or to its
\* end when the case throws before that.
Handle(msg) ==
  /\ handling.pc = "idle"
  /\ msg.type = "SAVE_CUSTOM_RULES" => Len(custom_rules) < MaxRules
  /\ msg.type = "OPTIMIZE_PROMPT" => stats.total_count.value < MaxRequests
  /\ handling' =
       LET h == [NotHandling EXCEPT !.type = msg.type, !.payload = msg.payload] IN
       IF ThrownAtOnce(msg) # NoError THEN HandleCatch(h, ThrownAtOnce(msg))
       ELSE [h EXCEPT !.pc = "await"]
  /\ UNCHANGED <<page, built, passes, statistics, storage, app, ui, req, rulesEngine>>

\* The awaited call of the case rejects.
AwaitRejects ==
  /\ handling.pc = "await"
  /\ handling.type # "TEST_CONNECTION"
  /\ handling' = HandleCatch(handling, ThrownOnReject(handling.type))
  /\ UNCHANGED <<page, built, passes, statistics, storage, app, ui, req, rulesEngine>>

\* The awaited call of the case resolves: the storage as the call leaves it,
\* and sendResponse; an OPTIMIZE_PROMPT goes on to recordOptimization.
AwaitResolves ==
  /\ handling.pc = "await"
  /\ LET p == handling.payload
         type == handling.type
     IN  /\ settings' = IF type = "SAVE_SETTINGS" THEN p.settings ELSE settings
         /\ custom_rules' =
              IF type = "SAVE_CUSTOM_RULES"
              THEN AddCustomRule(custom_rules,
                                 CHOOSE i \in 1..MaxRules : RuleId(i) \notin Ids(custom_rules),
                                 p.content, TRUE)
              ELSE IF type = "DELETE_CUSTOM_RULE"
              THEN LET Keep(r) == r.id # p.ruleId IN SelectSeq(custom_rules, Keep)
              ELSE custom_rules
         /\ handling' =
              IF type = "OPTIMIZE_PROMPT" THEN [handling EXCEPT !.pc = "record"]
              ELSE IF type = "TEST_CONNECTION"
              THEN HandleBreak(handling, ConnectedResponse(TRUE))
              ELSE HandleBreak(handling, SuccessResponse(NoResult))
  /\ UNCHANGED <<page, built, passes, statistics, models, app, ui, req, rulesEngine>>

\* recordOptimization settles: its failure is logged and dropped.
AwaitRecorded ==
  /\ handling.pc = "record"
  /\ \E ok \in BOOLEAN :
       stats' = IF ~ok THEN stats
                ELSE [total_count |-> TotalCount(stats.total_count.value + 1),
                      daily_stats |-> DailyStats(Today, TodayCount(stats.daily_stats) + 1)]
  /\ handling' = HandleBreak(handling, SuccessResponse(NoResult))
  /\ UNCHANGED <<page, built, passes, recording, served, storage, app, ui, req, rulesEngine>>

\* handle has returned.
HandleEnd ==
  /\ handling.pc = "done"
  /\ handling' = NotHandling
  /\ UNCHANGED <<page, built, passes, statistics, storage, app, ui, req, rulesEngine>>

NextMessages ==
  \/ \E msg \in AllMessages : Handle(msg)
  \/ AwaitRejects
  \/ AwaitResolves
  \/ AwaitRecorded
  \/ HandleEnd

InitMessages == InitInstall /\ settings = DefaultSettings
SpecMessages == InitMessages /\ [][NextMessages]_vars

(***************************************************************************)
(* UIManager: the optimize button with requests that overlap               *)
(***************************************************************************)

\* An invocation of handleOptimize that awaits chrome.runtime.sendMessage.
\* latest says that this.abortController is the controller it made.
Awaiting(id, updateExistingDialog) ==
  [id |-> id, updateExistingDialog |-> updateExistingDialog, cancelled |-> FALSE,
   latest |-> TRUE]

\* this.abortController?.signal.aborted, as an invocation reads it after its
\* await: the field holds the controller made last, or null.
SignalAborted(controller, owner) ==
  controller # "null" /\ owner # {} /\ \A r \in owner : r.cancelled

\* handleOptimize(updateExistingDialog) up to its await: a new controller
\* replaces the one in the field.
StartOptimize(updateExistingDialog) ==
  /\ clicks < MaxClicks
  /\ clicks' = clicks + 1
  /\ abortController' = "live"
  /\ isLoading' = TRUE
  /\ inFlight' = { [r EXCEPT !.latest = FALSE] : r \in inFlight }
                   \cup { Awaiting(clicks + 1, updateExistingDialog) }
  /\ UNCHANGED <<currentDialog, built, passes, statistics, handling, storage, app, req,
                 rulesEngine>>

\* The button is clicked while nothing is loading: handleOptimize().
ClickOptimize ==
  /\ ~isLoading
  /\ StartOptimize(FALSE)

\* The dialog's re-optimize button: handleOptimize(true, text), which does
\* not return when a request is loading.
ClickReoptimize ==
  /\ currentDialog.open
  /\ StartOptimize(TRUE)

\* The button is clicked while a request is loading: cancelOptimize aborts
\* the controller in the field and clears the field and the flag.
ClickCancel ==
  /\ isLoading
  /\ abortController # "null"
  /\ abortController' = "null"
  /\ isLoading' = FALSE
  /\ inFlight' = { IF r.latest THEN [r EXCEPT !.cancelled = TRUE, !.latest = FALSE] ELSE r :
                     r \in inFlight }
  /\ UNCHANGED <<currentDialog, clicks, built, passes, statistics, handling, storage, app,
                 req, rulesEngine>>

\* handleOptimize after its await: the response of request r has arrived
\* (or sendMessage has rejected), the dialog is opened or updated unless the
\* controller in the field is aborted, and the finally block has run.
ResponseArrives(r, success) ==
  /\ r \in inFlight
  /\ inFlight' = inFlight \ {r}
  /\ currentDialog' =
       IF SignalAborted(abortController, { q \in inFlight : q.latest }) THEN currentDialog
       ELSE IF ~success THEN currentDialog
       ELSE [open |-> TRUE, request |-> r.id, cancelled |-> r.cancelled]
  /\ isLoading' = FALSE
  /\ abortController' = "null"
  /\ UNCHANGED <<clicks, built, passes, statistics, handling, storage, app, req, rulesEngine>>

\* The dialog is closed.
CloseDialog ==
  /\ currentDialog.open
  /\ currentDialog' = NoDialog
  /\ UNCHANGED <<inFlight, clicks, ui, built, passes, statistics, handling, storage, app,
                 req, rulesEngine>>

NextPage ==
  \/ ClickOptimize
  \/ ClickReoptimize
  \/ ClickCancel
  \/ \E r \in inFlight, success \in BOOLEAN : ResponseArrives(r, success)
  \/ CloseDialog

InitPageSpec == InitInstall /\ settings = DefaultSettings
SpecPage == InitPageSpec /\ [][NextPage]_vars
(***************************************************************************)
(* Properties                                                              *)
(***************************************************************************)

\* What the rule engine of ModelManager returns for a prompt.
BuiltinResult(prompt) ==
  [original  |-> prompt,
   optimized |-> RulesEngineOptimize(initializeDefaultRules, DefaultEnabledRuleIds,
                                     prompt).optimized]

\* C1: when ModelManager.optimize has read an active model id that is not
\* 'builtin-rules' and a model list that has no model of that id, then, for
\* a prompt that is a string as the request's type says, it throws nothing,
\* has no adapter issue an HTTP request, and returns what the rule engine
\* makes of the prompt.
C1_UnknownModelFallsBack ==
  (req.lookup = "unknown" /\ req.msg.promptIsString) =>
    /\ req.modelId # BuiltinRules
    /\ req.pc \in {"record", "done"}
    /\ req.thrown = NoError
    /\ req.engine = "fallback"
    /\ req.fetches = 0
    /\ req.sent = NoRequest
    /\ req.response.data = BuiltinResult(req.msg.prompt)
    /\ req.pc = "done" => req.response.success

\* C1: a request for a model id that its model list lacks has been answered.
C1_Witness ==
  /\ req.pc = "done"
  /\ req.lookup = "unknown"
  /\ req.modelId \notin Ids(models) \cup {BuiltinRules}
  /\ req.msg.prompt = <<KwCode>>
  /\ req.response.success
  /\ req.response.data.optimized # req.msg.prompt

\* C2: an OPTIMIZE_PROMPT request that is answered with success carries a
\* non-empty optimized text, whatever the provider replied, and one that
\* failed carries an error.
C2_SuccessIsNeverEmpty ==
  (req.msg.type = "OPTIMIZE_PROMPT" /\ req.pc = "done") =>
    IF req.response.success
    THEN req.response.data.optimized # <<>>
    ELSE req.response.error # ""

\* C3: a call of RulesEngine.optimize returns a result, whatever rules have
\* been added, enabled and disabled: no exception of a rule's check or
\* apply leaves it.
C3_OptimizeNeverThrows == outcome.called => ~outcome.threw

\* C4: an error that ModelManager.optimize throws to the handler is an
\* AppError with an ErrorCode and a message, and it is not the raw error of
\* the adapter.
C4_FailuresAreAppErrors ==
  /\ (req.thrown # NoError) =>
       /\ req.thrown.kind = "AppError"
       /\ req.thrown.code \in ErrorCodes
       /\ req.thrown.message # ""
       /\ req.pc = "done"
       /\ ~req.response.success
       /\ req.response.error # ""
  /\ (req.raw # NoError) => (req.thrown # req.raw /\ req.raw.kind # "AppError")

\* C4: fetch has rejected, and the handler has the error as a NETWORK_ERROR.
C4_Witness ==
  /\ req.pc = "done"
  /\ req.raw.kind = "TypeError"
  /\ req.thrown = AppError("NETWORK_ERROR", "network failed")
  /\ ~req.response.success

\* The payload the claim C5 is about: an OPTIMIZE_PROMPT without a payload or
\* with an empty prompt, a TEST_CONNECTION without a config or with a config
\* that lacks its endpoint or its model.
InvalidPayload(msg) ==
  \/ /\ msg.type = "OPTIMIZE_PROMPT"
     /\ (~msg.hasPayload \/ (msg.promptIsString /\ msg.prompt = <<>>))
  \/ /\ msg.type = "TEST_CONNECTION"
     /\ (~msg.hasPayload \/ ~msg.endpoint \/ ~msg.model)

\* C5: a message with such a payload is answered with success:false at once:
\* handle calls neither ModelManager.optimize nor testConnection for it, and
\* no HTTP request is made.
C5_InvalidPayloadIsRejected ==
  InvalidPayload(req.msg) =>
    /\ req.pc = "done"
    /\ ~req.response.success
    /\ req.response.error # ""
    /\ req.modelId = "" /\ req.engine = "" /\ req.lookup = ""
    /\ req.fetches = 0 /\ req.sent = NoRequest
    /\ ~req.recorded

\* C5: an OPTIMIZE_PROMPT with an empty prompt has been answered.
C5_Witness ==
  /\ req.pc = "done"
  /\ req.msg.type = "OPTIMIZE_PROMPT"
  /\ req.msg.hasPayload /\ req.msg.promptIsString /\ req.msg.prompt = <<>>
  /\ ~req.response.success
  /\ req.fetches = 0

\* The lines of a system text that carry a tag's guidance, and the contents
\* of the rules it carries.
TagsIn(system)  == { system[i].id : i \in { j \in 1..Len(system) : system[j].kind = "tag" } }
RulesIn(system) == { system[i].text : i \in { j \in 1..Len(system) : system[j].kind = "rule" } }

\* C6: the system text of a request that an adapter sends for a stored model
\* carries the guidance of every selected methodology tag and the content of
\* every enabled custom rule.
C6_SystemTextCarriesTagsAndRules ==
  (req.msg.type = "OPTIMIZE_PROMPT" /\ req.fetches > 0) =>
    /\ settings.promptMethodTagIds \subseteq TagsIn(req.sent.system)
    /\ \A i \in 1..Len(custom_rules) :
         custom_rules[i].enabled => custom_rules[i].content \in RulesIn(req.sent.system)

\* C7: once the user has cancelled a request, the background does nothing
\* more for it: it processes no provider response and records no statistic.
C7_CancelStopsTheRequest ==
  req.cancelled =>
    req.afterCancel \cap {"response processed", "statistic recorded"} = {}

\* C8: no request has an adapter issue more than one HTTP request; the rule
\* engine answers as a fallback only when the model id was unknown; and when
\* the adapter's call has failed, optimize has thrown after that one HTTP
\* request.
C8_FailedCallSurfacesAtOnce ==
  /\ req.fetches <= 1
  /\ req.engine = "fallback" => req.lookup = "unknown"
  /\ (req.raw # NoError) =>
       /\ req.pc = "done"
       /\ req.lookup = "known"
       /\ req.engine = "adapter"
       /\ req.fetches = 1
       /\ req.thrown.code \in {"NETWORK_ERROR", "API_ERROR"}
       /\ ~req.response.success
       /\ ~req.recorded

\* C8: the provider has answered 500 to the request of a stored model, and
\* the handler has answered with the error.
C8_Witness ==
  /\ req.pc = "done"
  /\ req.lookup = "known"
  /\ req.raw.status = 500
  /\ req.thrown.code = "API_ERROR"
  /\ req.fetches = 1
  /\ ~req.response.success

\* C9: every custom rule in the storage has a content that SecurityChecker
\* finds safe.
C9_StoredRulesAreSafe ==
  \A i \in 1..Len(custom_rules) : SecurityCheck(custom_rules[i].content).isSafe

\* C10: the handling of an OPTIMIZE_PROMPT never runs the screener on the
\* prompt: the prompt goes to the adapter as it came, the rule engine's
\* answer is its answer for that very prompt, and a request with a prompt
\* fails only with an error that ModelManager.optimize has thrown.
C10_PromptIsNeverScreened ==
  (req.msg.type = "OPTIMIZE_PROMPT" /\ req.pc # "idle") =>
    /\ ~req.screened
    /\ req.response.error # "unsafe prompt"
    /\ (~InvalidPayload(req.msg) /\ req.pc = "done" /\ ~req.response.success)
         => req.thrown # NoError
    /\ req.sent.adapter # "" => req.sent.prompt = req.msg.prompt
    /\ (/\ req.engine \in {"builtin", "fallback"}
        /\ req.thrown = NoError
        /\ req.pc \in {"record", "done"})
         => req.response.data = BuiltinResult(req.msg.prompt)

\* C10: a prompt that the screener rates high has been optimized by the rule
\* engine.
C10_Witness ==
  /\ req.pc = "done"
  /\ req.msg.prompt = <<KwJailbreak>>
  /\ SecurityCheck(req.msg.prompt).riskLevel = "high"
  /\ req.engine = "builtin"
  /\ req.response.success
  /\ req.response.data.optimized # <<>>

\* C11: the probe of a TEST_CONNECTION never makes testConnection throw,
\* neither the adapter's nor ModelManager's: the handler answers with
\* success, connected being true exactly when the probe's response was 2xx,
\* and false when fetch rejected.
C11_TestConnectionNeverRejects ==
  (req.msg.type = "TEST_CONNECTION" /\ req.probe # NoProbe) =>
    /\ req.pc = "done"
    /\ ~req.probe.adapterThrew
    /\ req.response.success
    /\ req.response.connected =
         (req.probe.kind # "network" /\ req.probe.status \in 200..299)

\* C11: fetch rejected the probe of a Claude config, and the answer is
\* connected: false.
C11_Witness ==
  /\ req.pc = "done"
  /\ req.msg.type = "TEST_CONNECTION"
  /\ req.sent.adapter = "ClaudeAdapter"
  /\ req.probe.kind = "network"
  /\ req.response.success
  /\ ~req.response.connected

\* C12: getAdapter gives an adapter for every provider: the Gemini adapter
\* for 'gemini', the Claude adapter for 'claude', the OpenAI adapter for
\* every other value, a string outside the provider type included.
C12_GetAdapterIsTotal ==
  (req.msg.type = "TEST_CONNECTION" /\ req.fetches > 0) =>
    req.sent.adapter =
      IF req.msg.provider = "gemini" THEN "GeminiAdapter"
      ELSE IF req.msg.provider = "claude" THEN "ClaudeAdapter"
      ELSE "OpenAIAdapter"

\* C12: a config of an unrecognized provider has been probed through the
\* OpenAI adapter.
C12_Witness ==
  /\ req.msg.type = "TEST_CONNECTION"
  /\ req.msg.provider = "unknown-provider"
  /\ req.msg.provider \notin Providers
  /\ req.pc = "done"
  /\ req.sent.adapter = "OpenAIAdapter"

\* C13: when the settings that ModelManager.optimize has read name
\* 'builtin-rules', or are absent, it returns what the rule engine makes of
\* the prompt (a string), reads no model list, selects no adapter and has
\* no HTTP request made.
C13_BuiltinAnswersDirectly ==
  (req.read \in {BuiltinRules, "absent"} /\ req.msg.promptIsString) =>
    /\ req.pc \in {"record", "done"}
    /\ req.engine = "builtin"
    /\ req.modelId = "" /\ req.lookup = ""
    /\ req.fetches = 0 /\ req.sent = NoRequest
    /\ req.thrown = NoError
    /\ req.response.data = BuiltinResult(req.msg.prompt)
    /\ req.pc = "done" => req.response.success

\* C13: a request has been answered by the rule engine while no settings
\* were stored.
C13_Witness ==
  /\ req.pc = "done"
  /\ req.read = "absent"
  /\ ~settings.present
  /\ req.engine = "builtin"
  /\ req.response.success
  /\ req.response.data.optimized # <<>>

\* C14: the result of RulesEngine.optimize(P) has P itself as its original,
\* leading and trailing whitespace kept, and as its optimized the text that
\* the enabled rules make of the trimmed P: the whitespace of P, which the
\* prompts here have at their ends only, is not in it.
C14_OriginalIsVerbatim ==
  (outcome.called /\ ~outcome.threw) =>
    /\ outcome.original = outcome.prompt
    /\ outcome.optimized =
         ApplyRules(1, rules, enabledRuleIds, Trim(outcome.prompt),
                    buildContext(Trim(outcome.prompt))).optimized
    /\ \A i \in 1..Len(outcome.optimized) : outcome.optimized[i] # "sp"

\* C14: a prompt with whitespace at both ends has been optimized; its
\* original has the whitespace, its optimized has not.
C14_Witness ==
  /\ outcome.called /\ ~outcome.threw
  /\ outcome.prompt = <<"sp", "x", "sp">>
  /\ outcome.original = <<"sp", "x", "sp">>
  /\ "sp" \notin { outcome.optimized[i] : i \in 1..Len(outcome.optimized) }
  /\ "x" \in { outcome.optimized[i] : i \in 1..Len(outcome.optimized) }

\* C15: the rule list is in descending order of priority, two rules of one
\* priority stand in the order in which they were put into the list, and
\* optimize applies the rules in the order of the list.
C15_RulesSortedAndStable ==
  /\ \A i, j \in 1..Len(rules) :
       i < j => \/ rules[i].priority > rules[j].priority
                \/ /\ rules[i].priority = rules[j].priority
                   /\ rules[i].seq < rules[j].seq
  /\ \A i, j \in 1..Len(outcome.fired) :
       i < j => outcome.fired[i] < outcome.fired[j]

\* C15: a custom rule with the priority of the structure-requirements rule
\* has been added; it stands right behind that rule, and optimize has
\* applied the two in that order.
C15_Witness ==
  /\ Len(rules) > Len(DeclaredDefaultRules)
  /\ \E i \in 1..(Len(rules) - 1) :
       /\ rules[i].id = "structure-requirements"
       /\ rules[i + 1].seq > Len(DeclaredDefaultRules)
       /\ rules[i + 1].priority = rules[i].priority
       /\ \E m \in 1..(Len(outcome.fired) - 1) :
            outcome.fired[m] = i /\ outcome.fired[m + 1] = i + 1

\* What the loop of optimize must have done at the rules k.. of the list,
\* told from the rules it applied: a rule that is enabled was applied
\* exactly if its check holds of the text as the rules before it left it.
RECURSIVE FiredAsChecked(_, _, _, _)
FiredAsChecked(k, text, context, fired) ==
  IF k > Len(rules) THEN fired = <<>>
  ELSE IF rules[k].id \notin enabledRuleIds
       THEN (fired = <<>> \/ Head(fired) # k) /\ FiredAsChecked(k + 1, text, context, fired)
       ELSE IF RuleCheck(rules[k], text, context)
            THEN /\ fired # <<>>
                 /\ Head(fired) = k
                 /\ FiredAsChecked(k + 1, RuleApply(rules[k], text, context), context,
                                   Tail(fired))
            ELSE /\ (fired = <<>> \/ Head(fired) # k)
                 /\ FiredAsChecked(k + 1, text, context, fired)

\* C16: in a call of optimize, an enabled rule is applied exactly if its
\* check holds of the working text as the rules applied before it have left
\* it, not of the input.
C16_ChecksSeeTheWorkingText ==
  (outcome.called /\ ~outcome.threw) =>
    FiredAsChecked(1, Trim(outcome.prompt), buildContext(Trim(outcome.prompt)),
                   outcome.fired)

\* C16: the input had no structure marker, the code-specific rule was applied
\* and added some, and the structure-requirements rule, enabled and reached
\* after it, was not applied.
C16_Witness ==
  /\ outcome.called /\ ~outcome.threw
  /\ ~hasStructure(Trim(outcome.prompt))
  /\ "structure-requirements" \in enabledRuleIds
  /\ \E i, j \in 1..Len(rules) :
       /\ i < j
       /\ rules[i].id = "code-specific"
       /\ rules[j].id = "structure-requirements"
       /\ i \in { outcome.fired[m] : m \in 1..Len(outcome.fired) }
       /\ j \notin { outcome.fired[m] : m \in 1..Len(outcome.fired) }

\* C17: no two rules of the rule list have the same id.
C17_RuleIdsAreUnique ==
  \A i, j \in 1..Len(rules) : i # j => rules[i].id # rules[j].id

\* The engine has its default rule set, every rule enabled.
DefaultRuleSet ==
  rules = initializeDefaultRules /\ enabledRuleIds = DefaultEnabledRuleIds

\* The tokens of a text.
Tokens(text) == { text[i] : i \in 1..Len(text) }

\* C18: with the default rule set, the optimized text of an input that is
\* under 50 characters when trimmed and has no detailed phrasing contains
\* the context-enhancement directive.
C18_ShortInputGetsContextDirective ==
  (/\ outcome.called /\ ~outcome.threw
   /\ DefaultRuleSet
   /\ TextLen(Trim(outcome.prompt)) < 50
   /\ ~hasDetailedContext(Trim(outcome.prompt)))
    => DirContext \in Tokens(outcome.optimized)

\* C19: with the default rule set, the optimized text of the Chinese prompt
\* 'write a sorting algorithm' is not empty and begins with the role
\* sentence of the software engineer.
C19_AlgorithmPromptGetsEngineerRole ==
  (outcome.called /\ DefaultRuleSet /\ outcome.prompt = AlgorithmPrompt) =>
    /\ ~outcome.threw
    /\ outcome.optimized # <<>>
    /\ Head(outcome.optimized) = DirRole("software-engineer")

\* C20: the result of SecurityChecker.check has isSafe true exactly when it
\* has no detected issue or its risk level is 'low', and has a
\* filteredContent exactly when its risk level is 'high'.
C20_CheckResultIsConsistent ==
  app.screened.done =>
    LET r == app.screened.result IN
    /\ r.isSafe <=> (Len(r.detectedIssues) = 0 \/ r.riskLevel = "low")
    /\ r.hasFiltered <=> (r.riskLevel = "high")
    /\ r.riskLevel \in {"low", "medium", "high"}

\* C20: a content of medium risk has been checked: it has an issue, is not
\* safe, and has no filteredContent.
C20_Witness ==
  /\ app.screened.done
  /\ app.screened.content = MediumContent
  /\ app.screened.result.riskLevel = "medium"
  /\ Len(app.screened.result.detectedIssues) = 1
  /\ ~app.screened.result.isSafe
  /\ ~app.screened.result.hasFiltered


\* The entries of attackPatterns of high severity that match a content.
HighPatternsIn(content) ==
  { p \in 1..Len(attackPatterns) : attackPatterns[p] = "high" /\ PatternTest(p, content) }

\* The last entry of high severity that matches, and the phrase it matches
\* first.
LastHighPattern(content) ==
  CHOOSE p \in HighPatternsIn(content) : \A q \in HighPatternsIn(content) : q <= p
FirstMatch(content, p) ==
  content[CHOOSE i \in 1..Len(content) :
            /\ p \in PatternsOf(content[i])
            /\ \A j \in 1..(i - 1) : p \notin PatternsOf(content[j])]

\* C21: for a text that a pattern of high severity matches, check returns
\* isSafe false, riskLevel 'high', at least one detected issue, and a
\* filteredContent in which the phrase that was matched no longer occurs.
C21_MatchedPhraseIsGone ==
  (app.screened.done /\ HighPatternsIn(app.screened.content) # {}) =>
    LET r == app.screened.result
        content == app.screened.content
    IN  /\ ~r.isSafe
        /\ r.riskLevel = "high"
        /\ Len(r.detectedIssues) >= 1
        /\ r.hasFiltered
        /\ \A i \in 1..Len(r.filteredContent) :
             r.filteredContent[i] # FirstMatch(content, LastHighPattern(content))

\* C22: when the reply to an adapter's optimize request is a response that
\* is not 2xx, the adapter throws (no result is returned, and the response
\* body is not read as a result) an error whose message contains the status.
C22_HttpErrorCarriesTheStatus ==
  (/\ req.msg.type = "OPTIMIZE_PROMPT"
   /\ req.probe.kind \in {"http", "badjson", "nulljson"}
   /\ ~HttpOk(req.probe.status)) =>
    /\ req.probe.adapterThrew
    /\ ~req.response.success
    /\ req.response.data.optimized = <<>>
    /\ req.raw.kind # "none"
    /\ req.raw.status = req.probe.status

\* The ids of the catalog.
CatalogIds == { PROMPT_METHOD_TAGS[i] : i \in 1..Len(PROMPT_METHOD_TAGS) }

\* C23: the text buildSystemPrompt returns begins with the base preamble; it
\* has a methodology-tag block exactly when a selected id is in the catalog
\* and a custom-rule block exactly when a rule is enabled, in this order,
\* each after a blank line; a block is its header and at least one entry;
\* the tag entries are those of the selected ids of the catalog, the rule
\* entries those of the enabled rules, so no disabled rule appears.
C23_SystemPromptLayout ==
  built.called =>
    LET s == built.result
        Pos(kind) == { i \in 1..Len(s) : s[i].kind = kind }
        chosen == built.methodTagIds \cap CatalogIds
        enabled == { i \in 1..Len(built.customRules) : built.customRules[i].enabled }
    IN  /\ Len(s) >= 1
        /\ Pos("base") = {1}
        /\ \A i \in 1..Len(s) :
             s[i].kind \in {"base", "blank", "tag-header", "tag", "rule-header", "rule"}
        /\ (Pos("tag-header") # {}) <=> (chosen # {})
        /\ (Pos("rule-header") # {}) <=> (enabled # {})
        /\ Cardinality(Pos("tag-header")) <= 1
        /\ Cardinality(Pos("rule-header")) <= 1
        /\ \A i \in Pos("tag-header"), j \in Pos("rule-header") : i < j
        \* a header follows a blank line and has an entry under it
        /\ \A i \in Pos("tag-header") :
             /\ s[i - 1].kind = "blank"
             /\ i < Len(s) /\ s[i + 1].kind = "tag"
        /\ \A i \in Pos("rule-header") :
             /\ s[i - 1].kind = "blank"
             /\ i < Len(s) /\ s[i + 1].kind = "rule"
        \* a blank line only joins two parts
        /\ \A i \in Pos("blank") :
             i < Len(s) /\ s[i + 1].kind \in {"tag-header", "rule-header"}
        \* entries stand under their header
        /\ \A i \in Pos("tag") : s[i - 1].kind \in {"tag-header", "tag"}
        /\ \A i \in Pos("rule") : s[i - 1].kind \in {"rule-header", "rule"}
        \* the entries are the selected tags and the enabled rules
        /\ { s[i].id : i \in Pos("tag") } = chosen
        /\ Cardinality(Pos("tag")) = Cardinality(chosen)
        /\ Cardinality(Pos("rule")) = Cardinality(enabled)
        /\ \A i \in Pos("rule") :
             \E j \in enabled :
               /\ s[i].id = built.customRules[j].name
               /\ s[i].text = built.customRules[j].content
               /\ Cardinality({ k \in Pos("rule") : k < i })
                    = Cardinality({ k \in enabled : k < j })

\* C23: buildSystemPrompt was given an id outside the catalog alone and two
\* rules, the first disabled: its text is the preamble and the rule block
\* with the second rule only.
C23_Witness ==
  /\ built.called
  /\ built.methodTagIds = {"no-such-tag"}
  /\ built.customRules = << PromptRule("n", FALSE), PromptRule("m", TRUE) >>
  /\ Len(built.result) = 4
  /\ built.result[3].kind = "rule-header"
  /\ built.result[4] = Line("rule", "m", <<"x">>)

\* The order of the risk levels.
Rank(level) == CASE level = "low" -> 0 [] level = "medium" -> 1 [] level = "high" -> 2

\* The entries of attackPatterns that match a content.
PatternsIn(content) == { p \in 1..Len(attackPatterns) : PatternTest(p, content) }

\* The highest severity among the entries that match.
HighestSeverity(content) ==
  IF \E p \in PatternsIn(content) : attackPatterns[p] = "high" THEN "high"
  ELSE IF \E p \in PatternsIn(content) : attackPatterns[p] = "medium" THEN "medium"
  ELSE "low"

\* maxSeverity after the scan has passed the first k entries of the table.
RECURSIVE LevelAfter(_, _)
LevelAfter(k, content) ==
  IF k = 0 THEN "low"
  ELSE IF PatternTest(k, content)
       THEN Escalate(attackPatterns[k], LevelAfter(k - 1, content))
       ELSE LevelAfter(k - 1, content)

\* C24: the riskLevel of check is the highest severity among the patterns
\* that match, wherever they stand in the table; the level never decreases
\* during the scan; and when nothing matches, as for the empty string, the
\* result is isSafe true, riskLevel 'low', no detected issue.
C24_RiskIsTheHighestSeverity ==
  app.screened.done =>
    LET r == app.screened.result
        content == app.screened.content
    IN  /\ r.riskLevel = HighestSeverity(content)
        /\ r.riskLevel = LevelAfter(Len(attackPatterns), content)
        /\ \A k \in 1..Len(attackPatterns) :
             Rank(LevelAfter(k - 1, content)) <= Rank(LevelAfter(k, content))
        /\ Len(r.detectedIssues) = Cardinality(PatternsIn(content))
        /\ (PatternsIn(content) = {}) =>
             (r.isSafe /\ r.riskLevel = "low" /\ r.detectedIssues = <<>>)
        /\ (content = <<>>) => (PatternsIn(content) = {})

\* C24: a content was checked that a pattern of high severity matches and,
\* later in the table, a pattern of medium severity: the level stayed high.
C24_Witness ==
  /\ app.screened.done
  /\ app.screened.content = <<KwYouAreNowA, "sp", KwIgnorePrev>>
  /\ app.screened.result.detectedIssues = <<1, 7>>
  /\ app.screened.result.riskLevel = "high"

\* The content with every match of pattern p replaced by the marker.
ReplaceEach(content, p) ==
  [ i \in 1..Len(content) |->
      IF p \in PatternsOf(content[i]) THEN Redacted ELSE content[i] ]

\* C25: when patterns of high severity match, filteredContent is the
\* original content with each span that matches the last of them in table
\* order replaced by the marker, and nothing else changed.
C25_EachSpanOfTheLastPatternIsReplaced ==
  (app.screened.done /\ HighPatternsIn(app.screened.content) # {}) =>
    /\ app.screened.result.hasFiltered
    /\ app.screened.result.filteredContent =
         ReplaceEach(app.screened.content, LastHighPattern(app.screened.content))

\* C26: with the five default rules enabled and no custom rule, optimize
\* called on the optimized text of an earlier call returns that text as it
\* is: no rule fires on the second pass.
C26_SecondPassChangesNothing ==
  (Len(passes) = 2 /\ DefaultRuleSet) =>
    /\ ~passes[2].threw
    /\ passes[2].original = passes[1].optimized
    /\ passes[2].optimized = passes[1].optimized
    /\ passes[2].fired = <<>>

\* C26: a prompt with a role, a numbered list and a format keyword had the
\* context directive added by the first call, and the second call has
\* returned.
C26_Witness ==
  /\ Len(passes) = 2
  /\ DefaultRuleSet
  /\ passes[1].original = <<KwYouAre, KwNumbered, KwFormat>>
  /\ passes[1].optimized = <<KwYouAre, KwNumbered, KwFormat, DirContext>>
  /\ passes[2].optimized = passes[1].optimized

\* C27: when no storage call of recordOptimization has failed and no
\* invocation is at recordOptimization, the stored total_count and today's
\* optimization_triggered have each grown by the number of OPTIMIZE_PROMPT
\* requests answered with success, however the invocations overlapped.
C27_EveryOptimizationIsCounted ==
  (/\ ~served.storageFailed
   /\ \A i \in 1..MaxOverlap : recording[i].pc = "idle") =>
    /\ stats.total_count.value = served.total0 + served.count
    /\ TodayCount(stats.daily_stats) = served.today0 + served.count

\* C28: handle calls sendResponse exactly once for every message: not
\* before its case has ended, once when it has ended, with success true when
\* the case reached its sendResponse and with success false and an error
\* text when something was thrown.
C28_OneResponsePerMessage ==
  /\ handling.sends <= 1
  /\ handling.pc \in {"idle", "await", "record"} => handling.sends = 0
  /\ handling.pc = "done" =>
       /\ handling.sends = 1
       /\ handling.response.sent
       /\ handling.left \in {"returned", "threw"}
       /\ handling.left = "returned" => handling.response.success
       /\ handling.left = "threw" =>
            (~handling.response.success /\ handling.response.error # "")

\* C28: a SAVE_CUSTOM_RULES message with an unsafe content was answered
\* once, with success false and an error text.
C28_Witness ==
  /\ handling.pc = "done"
  /\ handling.type = "SAVE_CUSTOM_RULES"
  /\ handling.payload.present
  /\ handling.payload.content = HighContent
  /\ handling.sends = 1
  /\ ~handling.response.success
  /\ handling.response.error = "unsafe rule content"

\* C29: the compare dialog never shows the result of a request that the
\* user had cancelled: the late response of a cancelled request neither
\* opens nor updates it.
C29_CancelledResponseIsDropped ==
  currentDialog.open => ~currentDialog.cancelled

\* C30: while a request that was not cancelled awaits its response,
\* isLoading is true and abortController is not null, and no second such
\* request awaits its response.
C30_LoadingWhileInFlight ==
  /\ (\E r \in inFlight : ~r.cancelled) => (isLoading /\ abortController # "null")
  /\ Cardinality({ r \in inFlight : ~r.cancelled }) <= 1
====
